---- MODULE Spec2Model ----
(***************************************************************************)
(* A model of tundra-xaxlib (v1): the 40-byte wire codec and the three     *)
(* message classes RequestMessage, SuccessfulResponseMessage and           *)
(* ErroneousResponseMessage.                                               *)
(*                                                                         *)
(* Bytes are integers 0..255, byte strings are sequences of bytes.  A      *)
(* Python function that may raise is an operator returning a record        *)
(* [exc |-> <exception name or NoExc>, value |-> <result>].                *)
(*                                                                         *)
(* TLC's integers are 32 bits wide and Python's are unbounded.  A          *)
(* message_identifier is therefore kept as two limbs,                      *)
(*      n = hi * 65536 + lo,   0 <= lo < 65536,   hi any integer,          *)
(* so that -1 is [hi |-> -1, lo |-> 65535] and 2^32 is [hi |-> 65536,      *)
(* lo |-> 0].                                                              *)
(***************************************************************************)
EXTENDS Integers, Sequences, FiniteSets, TLC

VARIABLES
    wireformat_bytes,   \* the byte string at hand: received, or returned by to_wireformat()
    message,            \* the message object at hand (NoMsg when there is none)
    response,           \* the object returned by a generate_*_response() factory (NoMsg when none)
    raised,             \* the exception the last call raised (NoExc when it returned)
    last_call,          \* the last call made: its name and its arguments
    encoded_from,       \* the message object wireformat_bytes was encoded from (NoMsg for received bytes)
    decoded_from,       \* the byte string `message` was decoded from (NoBytes for a constructed message)
    detected_class,     \* the class detect_message_class_from_wireformat() returned (NoClass when none)
    ALLOW_TRANSLATION_OF_PRIVATE_IPS,   \* Settings.ALLOW_TRANSLATION_OF_PRIVATE_IPS of the NAT64 server
    translation,        \* what perform_address_translation() did for the request at hand
    written,            \* the bytes handle_client_request() wrote to its stream writer
    connections,        \* the connections of the NAT64 server, one record per client
    TRANSPORT,          \* Settings.TRANSPORT of the NAT64 server
    signal_caught_event,    \* the asyncio.Event of main(): set or not
    signals_caught,     \* the number of termination signals the event loop has handled
    main_pc,            \* the await main() and its transport driver are suspended at
    main_raised,        \* the exception that left main() (NoExc while it runs and when it returned)
    server,             \* the listening server of unix_main / tcp_main
    commands,           \* the processes execute_command_sequence() has created, in order
    translator_thread_data_objects,     \* the list of that name of inherited_fds_main
    tundra_process      \* the translator child of inherited_fds_main

\* The variables of the codec, of one request of the NAT64 server, of its
\* connections, and of main() with its transport driver.
codec_vars == <<wireformat_bytes, message, response, raised, last_call, encoded_from, decoded_from, detected_class>>

request_vars == <<ALLOW_TRANSLATION_OF_PRIVATE_IPS, translation, written>>

server_vars == <<connections>>

driver_vars == <<TRANSPORT, signal_caught_event, signals_caught, main_pc, main_raised, server, commands, translator_thread_data_objects, tundra_process>>

vars == <<codec_vars, request_vars, server_vars, driver_vars>>

----------------------------------------------------------------------------
(* Program constants *)

MAGIC_BYTE == 84
PROTOCOL_VERSION == 1
WIREFORMAT_MESSAGE_SIZE == 40

BITMASK_RESPONSE_BIT == 128
BITMASK_ERROR_BIT == 64
BITMASK_ICMP_BIT == 32
BITMASK_MESSAGE_TYPE_INT == 31

MT_4TO6_MAIN_PACKET == "MT_4TO6_MAIN_PACKET"
MT_4TO6_ICMP_ERROR_PACKET == "MT_4TO6_ICMP_ERROR_PACKET"
MT_6TO4_MAIN_PACKET == "MT_6TO4_MAIN_PACKET"
MT_6TO4_ICMP_ERROR_PACKET == "MT_6TO4_ICMP_ERROR_PACKET"

\* The members of the MessageType enumeration.
MessageType ==
    {MT_4TO6_MAIN_PACKET, MT_4TO6_ICMP_ERROR_PACKET, MT_6TO4_MAIN_PACKET, MT_6TO4_ICMP_ERROR_PACKET}

\* member.value
MessageTypeValue(member) ==
    CASE member = MT_4TO6_MAIN_PACKET -> 1
      [] member = MT_4TO6_ICMP_ERROR_PACKET -> 2
      [] member = MT_6TO4_MAIN_PACKET -> 3
      [] member = MT_6TO4_ICMP_ERROR_PACKET -> 4

\* Exceptions.
NoExc == "none"
InvalidMessageDataExc == "InvalidMessageDataExc"
InvalidWireformatMessageDataExc == "InvalidWireformatMessageDataExc"
StructError == "struct.error"
AssertionError == "AssertionError"

\* The classes an IP address object can have; NoneType is the class of None.
IPv4Address == "IPv4Address"
IPv6Address == "IPv6Address"
NoneType == "NoneType"

\* None, where an address object is optional.
None == [cls |-> NoneType, packed |-> <<>>]

\* No message object.
NoMsg == [cls |-> "NoMsg"]

\* No byte string (distinct from the empty byte string <<>>).
NoBytes == <<-1>>

\* No class.
NoClass == "NoClass"

\* perform_address_translation() has not been called.
NoTranslation == [exc |-> "not called"]

----------------------------------------------------------------------------
(* Bytes, bits and wide integers *)

\* b'\x00' * n
Zeros(n) == [i \in 1..n |-> 0]

\* The bit of weight 2^k of the non-negative integer a.
Bit(a, k) == (a \div (2 ^ k)) % 2

\* a & b and a | b on 8-bit operands.
BitAnd(a, b) ==
    LET RECURSIVE and(_)
        and(k) == IF k < 0 THEN 0 ELSE (Bit(a, k) * Bit(b, k)) * (2 ^ k) + and(k - 1)
    IN  and(7)

BitOr(a, b) ==
    LET RECURSIVE or(_)
        or(k) == IF k < 0 THEN 0
                 ELSE (IF Bit(a, k) + Bit(b, k) > 0 THEN 2 ^ k ELSE 0) + or(k - 1)
    IN  or(7)

\* A Python int held in two limbs (see the module's head comment).
Wide(hi, lo) == [hi |-> hi, lo |-> lo]

WideLess(a, b) == a.hi < b.hi \/ (a.hi = b.hi /\ a.lo < b.lo)

WideZero == Wide(0, 0)

\* 4_294_967_295
WideUint32Max == Wide(65535, 65535)

----------------------------------------------------------------------------
(* _MiscHelpers and _ValidationHelpers *)

\* The dict lookup keyed by message_type; the expected versions are classes or NoneType.
get_expected_ip_version_for_message_type(message_type, expected_4to6_ip_version, expected_6to4_ip_version) ==
    CASE message_type = MT_4TO6_MAIN_PACKET -> expected_4to6_ip_version
      [] message_type = MT_4TO6_ICMP_ERROR_PACKET -> expected_4to6_ip_version
      [] message_type = MT_6TO4_MAIN_PACKET -> expected_6to4_ip_version
      [] message_type = MT_6TO4_ICMP_ERROR_PACKET -> expected_6to4_ip_version

\* validate_wireformat_size with the test `<` in place of `!=`.
validate_wireformat_size_TooShortOnly(bytes) ==
    IF Len(bytes) < WIREFORMAT_MESSAGE_SIZE
    THEN InvalidWireformatMessageDataExc
    ELSE NoExc

\* Each validate_* returns the exception it raises, NoExc when it returns normally.
validate_wireformat_size(bytes) ==
    LET wireformat_msg_len == Len(bytes)
    IN  IF wireformat_msg_len # WIREFORMAT_MESSAGE_SIZE
        THEN InvalidWireformatMessageDataExc
        ELSE NoExc

\* validate_icmp_bit_for_message_type with MT_6TO4_ICMP_ERROR_PACKET let through.
validate_icmp_bit_for_message_type_6to4LetThrough(message_type, icmp_bit) ==
    IF icmp_bit /\ (message_type \notin {MT_4TO6_MAIN_PACKET, MT_6TO4_MAIN_PACKET, MT_6TO4_ICMP_ERROR_PACKET})
    THEN InvalidMessageDataExc
    ELSE NoExc

validate_icmp_bit_for_message_type(message_type, icmp_bit) ==
    IF icmp_bit /\ (message_type \notin {MT_4TO6_MAIN_PACKET, MT_6TO4_MAIN_PACKET})
    THEN InvalidMessageDataExc
    ELSE NoExc

validate_cache_lifetime(cache_lifetime) ==
    IF (cache_lifetime < 0) \/ (cache_lifetime > 255)
    THEN InvalidMessageDataExc
    ELSE NoExc

\* validate_message_identifier with the upper limit one too high.
validate_message_identifier_OffByOne(message_identifier) ==
    IF WideLess(message_identifier, WideZero) \/ WideLess(Wide(65536, 0), message_identifier)
    THEN InvalidMessageDataExc
    ELSE NoExc

validate_message_identifier(message_identifier) ==
    IF WideLess(message_identifier, WideZero) \/ WideLess(WideUint32Max, message_identifier)
    THEN InvalidMessageDataExc
    ELSE NoExc

\* isinstance(ip_address, ip_version)
IsInstance(ip_address, ip_version) == ip_address.cls = ip_version

\* validate_ip_address_versions_for_message_type with `and` in place of `or`.
validate_ip_address_versions_for_message_type_And(message_type, source_ip_address, destination_ip_address, expected_4to6_ip_version, expected_6to4_ip_version) ==
    LET ip_version == get_expected_ip_version_for_message_type(
                          message_type, expected_4to6_ip_version, expected_6to4_ip_version)
    IN  IF ip_version = NoneType
        THEN AssertionError
        ELSE IF (~IsInstance(source_ip_address, ip_version)) /\ (~IsInstance(destination_ip_address, ip_version))
             THEN InvalidMessageDataExc
             ELSE NoExc

validate_ip_address_versions_for_message_type(message_type, source_ip_address, destination_ip_address, expected_4to6_ip_version, expected_6to4_ip_version) ==
    LET ip_version == get_expected_ip_version_for_message_type(
                          message_type, expected_4to6_ip_version, expected_6to4_ip_version)
    IN  IF ip_version = NoneType
        THEN AssertionError
        ELSE IF (~IsInstance(source_ip_address, ip_version)) \/ (~IsInstance(destination_ip_address, ip_version))
             THEN InvalidMessageDataExc
             ELSE NoExc

\* The first exception of a sequence of checks run in order (NoExc when none raises).
FirstExc(checks) ==
    LET RECURSIVE first(_)
        first(i) == IF i > Len(checks) THEN NoExc
                    ELSE IF checks[i] # NoExc THEN checks[i] ELSE first(i + 1)
    IN  first(1)

----------------------------------------------------------------------------
(* _WireformatHelpers *)

\* struct.unpack("!I", b): four big-endian bytes to an unsigned integer.
UnpackUint32(b) == Wide(b[1] * 256 + b[2], b[3] * 256 + b[4])

\* struct.pack("!I", n), for 0 <= n <= 4_294_967_295.
PackUint32(n) == <<n.hi \div 256, n.hi % 256, n.lo \div 256, n.lo % 256>>

\* Returns [exc, value]; value is <<response_bit, error_bit, icmp_bit, message_type>>.
convert_message_type_byte_to_bits_and_message_type(message_type_byte) ==
    LET response_bit == BitAnd(message_type_byte, BITMASK_RESPONSE_BIT) # 0
        error_bit == BitAnd(message_type_byte, BITMASK_ERROR_BIT) # 0
        icmp_bit == BitAnd(message_type_byte, BITMASK_ICMP_BIT) # 0
        message_type_int == BitAnd(message_type_byte, BITMASK_MESSAGE_TYPE_INT)
        members == {member \in MessageType : MessageTypeValue(member) = message_type_int}
    IN  IF members = {}
        THEN [exc |-> InvalidWireformatMessageDataExc, value |-> <<>>]
        ELSE [exc |-> NoExc,
              value |-> <<response_bit, error_bit, icmp_bit, CHOOSE member \in members : TRUE>>]

\* convert_16_bytes_to_optional_ip_address_object with the padding test one byte
\* short (ip_address_bytes[4:15]).
convert_16_bytes_to_optional_ip_address_object_ShortPadding(ip_address_bytes, ip_version) ==
    IF Len(ip_address_bytes) # 16
    THEN [exc |-> AssertionError, value |-> None]
    ELSE IF ip_version = IPv4Address
         THEN IF SubSeq(ip_address_bytes, 5, 15) # Zeros(11)
              THEN [exc |-> InvalidWireformatMessageDataExc, value |-> None]
              ELSE [exc |-> NoExc,
                    value |-> [cls |-> IPv4Address, packed |-> SubSeq(ip_address_bytes, 1, 4)]]
         ELSE IF ip_version = IPv6Address
              THEN [exc |-> NoExc, value |-> [cls |-> IPv6Address, packed |-> ip_address_bytes]]
              ELSE [exc |-> NoExc, value |-> None]

\* Returns [exc, value]; value is an address object or None.
convert_16_bytes_to_optional_ip_address_object(ip_address_bytes, ip_version) ==
    IF Len(ip_address_bytes) # 16
    THEN [exc |-> AssertionError, value |-> None]
    ELSE IF ip_version = IPv4Address
         THEN IF SubSeq(ip_address_bytes, 5, 16) # Zeros(12)
              THEN [exc |-> InvalidWireformatMessageDataExc, value |-> None]
              ELSE [exc |-> NoExc,
                    value |-> [cls |-> IPv4Address, packed |-> SubSeq(ip_address_bytes, 1, 4)]]
         ELSE IF ip_version = IPv6Address
              THEN [exc |-> NoExc, value |-> [cls |-> IPv6Address, packed |-> ip_address_bytes]]
              ELSE [exc |-> NoExc, value |-> None]

NoParsedWireformat == [response_bit |-> FALSE]

\* _WireformatHelpers.from_wireformat: returns [exc, value]; value is a ParsedWireformat.
WireformatHelpers_from_wireformat(bytes, expected_4to6_ip_version, expected_6to4_ip_version) ==
    IF validate_wireformat_size(bytes) # NoExc
    THEN [exc |-> validate_wireformat_size(bytes), value |-> NoParsedWireformat]
    ELSE
    LET first_8_bytes == SubSeq(bytes, 1, 8)
        source_ip_address_bytes == SubSeq(bytes, 9, 24)
        destination_ip_address_bytes == SubSeq(bytes, 25, 40)
        magic_byte == first_8_bytes[1]
        protocol_version == first_8_bytes[2]
        message_type_byte == first_8_bytes[3]
        cache_lifetime == first_8_bytes[4]
        message_identifier == UnpackUint32(SubSeq(first_8_bytes, 5, 8))
    IN  IF magic_byte # MAGIC_BYTE
        THEN [exc |-> InvalidWireformatMessageDataExc, value |-> NoParsedWireformat]
        ELSE IF protocol_version # PROTOCOL_VERSION
        THEN [exc |-> InvalidWireformatMessageDataExc, value |-> NoParsedWireformat]
        ELSE
        LET bits == convert_message_type_byte_to_bits_and_message_type(message_type_byte)
        IN  IF bits.exc # NoExc
            THEN [exc |-> bits.exc, value |-> NoParsedWireformat]
            ELSE
            LET message_type == bits.value[4]
                ip_version == get_expected_ip_version_for_message_type(
                                  message_type, expected_4to6_ip_version, expected_6to4_ip_version)
                source == convert_16_bytes_to_optional_ip_address_object(source_ip_address_bytes, ip_version)
                destination == convert_16_bytes_to_optional_ip_address_object(destination_ip_address_bytes, ip_version)
            IN  IF source.exc # NoExc
                THEN [exc |-> source.exc, value |-> NoParsedWireformat]
                ELSE IF destination.exc # NoExc
                THEN [exc |-> destination.exc, value |-> NoParsedWireformat]
                ELSE [exc |-> NoExc,
                      value |-> [response_bit |-> bits.value[1],
                                 error_bit |-> bits.value[2],
                                 icmp_bit |-> bits.value[3],
                                 message_type |-> message_type,
                                 cache_lifetime |-> cache_lifetime,
                                 message_identifier |-> message_identifier,
                                 source_ip_address |-> source.value,
                                 destination_ip_address |-> destination.value]]

\* convert_bits_and_message_type_to_message_type_byte without the icmp_bit branch.
convert_bits_and_message_type_to_message_type_byte_NoIcmp(response_bit, error_bit, icmp_bit, message_type) ==
    LET b0 == MessageTypeValue(message_type)
        b1 == IF response_bit THEN BitOr(b0, BITMASK_RESPONSE_BIT) ELSE b0
        b2 == IF error_bit THEN BitOr(b1, BITMASK_ERROR_BIT) ELSE b1
    IN  b2

convert_bits_and_message_type_to_message_type_byte(response_bit, error_bit, icmp_bit, message_type) ==
    LET b0 == MessageTypeValue(message_type)
        b1 == IF response_bit THEN BitOr(b0, BITMASK_RESPONSE_BIT) ELSE b0
        b2 == IF error_bit THEN BitOr(b1, BITMASK_ERROR_BIT) ELSE b1
        b3 == IF icmp_bit THEN BitOr(b2, BITMASK_ICMP_BIT) ELSE b2
    IN  b3

\* convert_optional_ip_address_object_to_16_bytes with the padding put first.
convert_optional_ip_address_object_to_16_bytes_PadFirst(ip_address_object) ==
    IF ip_address_object = None
    THEN Zeros(16)
    ELSE SubSeq(Zeros(12) \o ip_address_object.packed, 1, 16)

convert_optional_ip_address_object_to_16_bytes(ip_address_object) ==
    IF ip_address_object = None
    THEN Zeros(16)
    ELSE SubSeq(ip_address_object.packed \o Zeros(12), 1, 16)

\* _WireformatHelpers.to_wireformat: returns [exc, value]; struct.pack raises struct.error
\* for a "B" field outside 0..255 and an "I" field outside 0..4_294_967_295.
WireformatHelpers_to_wireformat(response_bit, error_bit, icmp_bit, message_type, cache_lifetime, message_identifier, source_ip_address, destination_ip_address) ==
    LET message_type_byte == convert_bits_and_message_type_to_message_type_byte(
                                 response_bit, error_bit, icmp_bit, message_type)
    IN  IF \/ message_type_byte \notin 0..255
           \/ cache_lifetime \notin 0..255
           \/ WideLess(message_identifier, WideZero)
           \/ WideLess(WideUint32Max, message_identifier)
        THEN [exc |-> StructError, value |-> <<>>]
        ELSE
        LET first_8_bytes == <<MAGIC_BYTE, PROTOCOL_VERSION, message_type_byte, cache_lifetime>>
                                 \o PackUint32(message_identifier)
            source_ip_address_bytes == convert_optional_ip_address_object_to_16_bytes(source_ip_address)
            destination_ip_address_bytes == convert_optional_ip_address_object_to_16_bytes(destination_ip_address)
            result == first_8_bytes \o source_ip_address_bytes \o destination_ip_address_bytes
        IN  IF Len(result) # WIREFORMAT_MESSAGE_SIZE
            THEN [exc |-> AssertionError, value |-> <<>>]
            ELSE [exc |-> NoExc, value |-> result]

----------------------------------------------------------------------------
(* The message classes.  A constructor returns [exc, value]: the dataclass    *)
(* fields are assigned and __post_init__ validates them; when it raises, no   *)
(* object is returned.                                                         *)

RequestMessageCls == "RequestMessage"
SuccessfulResponseMessageCls == "SuccessfulResponseMessage"
ErroneousResponseMessageCls == "ErroneousResponseMessage"

\* RequestMessage(...): the dataclass __init__ followed by __post_init__.
RequestMessage(message_type, message_identifier, source_ip_address, destination_ip_address) ==
    LET exc == FirstExc(<<
                validate_message_identifier(message_identifier),
                validate_ip_address_versions_for_message_type(
                    message_type, source_ip_address, destination_ip_address, IPv4Address, IPv6Address)>>)
    IN  IF exc # NoExc
        THEN [exc |-> exc, value |-> NoMsg]
        ELSE [exc |-> NoExc,
              value |-> [cls |-> RequestMessageCls,
                         message_type |-> message_type,
                         message_identifier |-> message_identifier,
                         source_ip_address |-> source_ip_address,
                         destination_ip_address |-> destination_ip_address]]

\* SuccessfulResponseMessage(...)
SuccessfulResponseMessage(message_type, cache_lifetime, message_identifier, source_ip_address, destination_ip_address) ==
    LET exc == FirstExc(<<
                validate_cache_lifetime(cache_lifetime),
                validate_message_identifier(message_identifier),
                validate_ip_address_versions_for_message_type(
                    message_type, source_ip_address, destination_ip_address, IPv6Address, IPv4Address)>>)
    IN  IF exc # NoExc
        THEN [exc |-> exc, value |-> NoMsg]
        ELSE [exc |-> NoExc,
              value |-> [cls |-> SuccessfulResponseMessageCls,
                         message_type |-> message_type,
                         cache_lifetime |-> cache_lifetime,
                         message_identifier |-> message_identifier,
                         source_ip_address |-> source_ip_address,
                         destination_ip_address |-> destination_ip_address]]

\* ErroneousResponseMessage(...)
ErroneousResponseMessage(icmp_bit, message_type, message_identifier) ==
    LET exc == FirstExc(<<
                validate_icmp_bit_for_message_type(message_type, icmp_bit),
                validate_message_identifier(message_identifier)>>)
    IN  IF exc # NoExc
        THEN [exc |-> exc, value |-> NoMsg]
        ELSE [exc |-> NoExc,
              value |-> [cls |-> ErroneousResponseMessageCls,
                         icmp_bit |-> icmp_bit,
                         message_type |-> message_type,
                         message_identifier |-> message_identifier]]

\* RequestMessage.from_wireformat without icmp_bit in its flag test.
RequestMessage_from_wireformat_IcmpUntested(bytes) ==
    LET parsed == WireformatHelpers_from_wireformat(bytes, IPv4Address, IPv6Address)
        p == parsed.value
    IN  IF parsed.exc # NoExc
        THEN [exc |-> parsed.exc, value |-> NoMsg]
        ELSE IF ~((p.source_ip_address # None) /\ (p.destination_ip_address # None))
        THEN [exc |-> AssertionError, value |-> NoMsg]
        ELSE IF p.response_bit \/ p.error_bit
        THEN [exc |-> InvalidWireformatMessageDataExc, value |-> NoMsg]
        ELSE RequestMessage(p.message_type, p.message_identifier,
                            p.source_ip_address, p.destination_ip_address)

\* RequestMessage.from_wireformat
RequestMessage_from_wireformat(bytes) ==
    LET parsed == WireformatHelpers_from_wireformat(bytes, IPv4Address, IPv6Address)
        p == parsed.value
    IN  IF parsed.exc # NoExc
        THEN [exc |-> parsed.exc, value |-> NoMsg]
        ELSE IF ~((p.source_ip_address # None) /\ (p.destination_ip_address # None))
        THEN [exc |-> AssertionError, value |-> NoMsg]
        ELSE IF p.response_bit \/ p.error_bit \/ p.icmp_bit
        THEN [exc |-> InvalidWireformatMessageDataExc, value |-> NoMsg]
        ELSE RequestMessage(p.message_type, p.message_identifier,
                            p.source_ip_address, p.destination_ip_address)

\* SuccessfulResponseMessage.from_wireformat
SuccessfulResponseMessage_from_wireformat(bytes) ==
    LET parsed == WireformatHelpers_from_wireformat(bytes, IPv6Address, IPv4Address)
        p == parsed.value
    IN  IF parsed.exc # NoExc
        THEN [exc |-> parsed.exc, value |-> NoMsg]
        ELSE IF ~((p.source_ip_address # None) /\ (p.destination_ip_address # None))
        THEN [exc |-> AssertionError, value |-> NoMsg]
        ELSE IF (~p.response_bit) \/ p.error_bit \/ p.icmp_bit
        THEN [exc |-> InvalidWireformatMessageDataExc, value |-> NoMsg]
        ELSE SuccessfulResponseMessage(p.message_type, p.cache_lifetime, p.message_identifier,
                                       p.source_ip_address, p.destination_ip_address)

\* ErroneousResponseMessage.from_wireformat
ErroneousResponseMessage_from_wireformat(bytes) ==
    LET parsed == WireformatHelpers_from_wireformat(bytes, NoneType, NoneType)
        p == parsed.value
    IN  IF parsed.exc # NoExc
        THEN [exc |-> parsed.exc, value |-> NoMsg]
        ELSE IF ~((p.source_ip_address = None) /\ (p.destination_ip_address = None))
        THEN [exc |-> AssertionError, value |-> NoMsg]
        ELSE IF (~p.response_bit) \/ (~p.error_bit)
        THEN [exc |-> InvalidWireformatMessageDataExc, value |-> NoMsg]
        ELSE ErroneousResponseMessage(p.icmp_bit, p.message_type, p.message_identifier)

\* RequestMessage.to_wireformat
RequestMessage_to_wireformat(self) ==
    WireformatHelpers_to_wireformat(FALSE, FALSE, FALSE, self.message_type, 0,
                                    self.message_identifier,
                                    self.source_ip_address, self.destination_ip_address)

\* SuccessfulResponseMessage.to_wireformat
SuccessfulResponseMessage_to_wireformat(self) ==
    WireformatHelpers_to_wireformat(TRUE, FALSE, FALSE, self.message_type, self.cache_lifetime,
                                    self.message_identifier,
                                    self.source_ip_address, self.destination_ip_address)

\* ErroneousResponseMessage.to_wireformat
ErroneousResponseMessage_to_wireformat(self) ==
    WireformatHelpers_to_wireformat(TRUE, TRUE, self.icmp_bit, self.message_type, 0,
                                    self.message_identifier, None, None)

\* generate_successful_response with the two addresses passed in the other order.
generate_successful_response_Swapped(self, cache_lifetime, source_ip_address, destination_ip_address) ==
    SuccessfulResponseMessage(self.message_type, cache_lifetime, self.message_identifier,
                              destination_ip_address, source_ip_address)

\* RequestMessage.generate_successful_response
generate_successful_response(self, cache_lifetime, source_ip_address, destination_ip_address) ==
    SuccessfulResponseMessage(self.message_type, cache_lifetime, self.message_identifier,
                              source_ip_address, destination_ip_address)

\* generate_erroneous_response that does not copy the identifier of the request.
generate_erroneous_response_IdentifierZero(self, icmp_bit) ==
    ErroneousResponseMessage(icmp_bit, self.message_type, WideZero)

\* RequestMessage.generate_erroneous_response
generate_erroneous_response(self, icmp_bit) ==
    ErroneousResponseMessage(icmp_bit, self.message_type, self.message_identifier)

\* cls.from_wireformat(bytes) and self.to_wireformat(), dispatched on the class.
from_wireformat(cls, bytes) ==
    CASE cls = RequestMessageCls -> RequestMessage_from_wireformat(bytes)
      [] cls = SuccessfulResponseMessageCls -> SuccessfulResponseMessage_from_wireformat(bytes)
      [] cls = ErroneousResponseMessageCls -> ErroneousResponseMessage_from_wireformat(bytes)

to_wireformat(self) ==
    CASE self.cls = RequestMessageCls -> RequestMessage_to_wireformat(self)
      [] self.cls = SuccessfulResponseMessageCls -> SuccessfulResponseMessage_to_wireformat(self)
      [] self.cls = ErroneousResponseMessageCls -> ErroneousResponseMessage_to_wireformat(self)

\* detect_message_class_from_wireformat that tests the response bit alone.
detect_message_class_from_wireformat_ResponseBitOnly(bytes) ==
    LET sizeExc == validate_wireformat_size(bytes)
    IN  IF sizeExc # NoExc
        THEN [exc |-> sizeExc, value |-> NoClass]
        ELSE IF BitAnd(bytes[3], BITMASK_RESPONSE_BIT) # 0
        THEN [exc |-> NoExc, value |-> SuccessfulResponseMessageCls]
        ELSE [exc |-> NoExc, value |-> RequestMessageCls]

\* WireformatParsingHelpers.detect_message_class_from_wireformat
\* (wireformat_bytes[2] of the source is bytes[3] here: sequences start at 1)
detect_message_class_from_wireformat(bytes) ==
    LET sizeExc == validate_wireformat_size(bytes)
        message_type_byte == bytes[3]
    IN  IF sizeExc # NoExc
        THEN [exc |-> sizeExc, value |-> NoClass]
        ELSE IF BitAnd(message_type_byte, BITMASK_RESPONSE_BIT) # 0
        THEN IF BitAnd(message_type_byte, BITMASK_ERROR_BIT) # 0
             THEN [exc |-> NoExc, value |-> ErroneousResponseMessageCls]
             ELSE [exc |-> NoExc, value |-> SuccessfulResponseMessageCls]
        ELSE [exc |-> NoExc, value |-> RequestMessageCls]

\* WireformatParsingHelpers.instantiate_appropriate_message_class_from_wireformat
instantiate_appropriate_message_class_from_wireformat(bytes) ==
    LET detected == detect_message_class_from_wireformat(bytes)
    IN  IF detected.exc # NoExc
        THEN [exc |-> detected.exc, value |-> NoMsg]
        ELSE from_wireformat(detected.value, bytes)

----------------------------------------------------------------------------
(* Inputs: the byte strings a peer may send and the arguments a caller may    *)
(* pass.  Each set holds the legal values and the ones next to them.          *)

\* Type codes 0..MaxTypeCode are tried in the low five bits of the type byte.
MaxTypeCode == 5

\* Frames of 40 - k and 40 + k bytes are tried for k in 1..MaxLenDelta.
MaxLenDelta == 2

MagicSamples == {MAGIC_BYTE, 0}

VersionSamples == {PROTOCOL_VERSION, 2}

\* Every combination of the three flag bits with the type codes 0..MaxTypeCode and 31.
TypeByteSamples == {flags * 32 + code : flags \in 0..7, code \in (0..MaxTypeCode) \cup {31}}

CacheLifetimeByteSamples == {0, 255}

\* 0, 0xDEADBEEF and 0xFFFFFFFF, as sent on the wire.
IdentifierBytesSamples == {<<0, 0, 0, 0>>, <<222, 173, 190, 239>>, <<255, 255, 255, 255>>}

\* 192.168.64.2 and 8.8.8.8
IPv4Samples == {<<192, 168, 64, 2>>, <<8, 8, 8, 8>>}

\* 2001:db8:102:304:506:708:90a:b0c
IPv6Samples == {<<32, 1, 13, 184, 1, 2, 3, 4, 5, 6, 7, 8, 9, 10, 11, 12>>}

\* A 16-byte address field: zeroed, a padded IPv4 address, an IPv4 address whose
\* padding is non-zero in its first, in a middle or in its last byte, and an IPv6
\* address.
AddressFieldSamples ==
    {Zeros(16)}
    \cup {<<192, 168, 64, 2>> \o Zeros(12)}
    \cup {<<8, 8, 8, 8, 1>> \o Zeros(11),
          <<8, 8, 8, 8>> \o Zeros(5) \o <<128>> \o Zeros(6),
          <<8, 8, 8, 8>> \o Zeros(11) \o <<1>>}
    \cup IPv6Samples

WellSizedFrames ==
    {<<magic, version, type, cache>> \o identifier \o source \o destination :
        magic \in MagicSamples, version \in VersionSamples, type \in TypeByteSamples,
        cache \in CacheLifetimeByteSamples, identifier \in IdentifierBytesSamples,
        source \in AddressFieldSamples, destination \in AddressFieldSamples}

\* A request frame that decodes, cut short or extended.
BaseFrame == <<MAGIC_BYTE, PROTOCOL_VERSION, 1, 0, 222, 173, 190, 239>>
                 \o <<8, 8, 8, 8>> \o Zeros(12) \o <<192, 168, 64, 2>> \o Zeros(12)

MisSizedFrames ==
    {<<>>}
    \cup {SubSeq(BaseFrame, 1, WIREFORMAT_MESSAGE_SIZE - k) : k \in 1..MaxLenDelta}
    \cup {BaseFrame \o Zeros(k) : k \in 1..MaxLenDelta}

ReceivedFrames == WellSizedFrames \cup MisSizedFrames

\* Constructor arguments.
IdentifierSamples == {Wide(-1, 65535), Wide(0, 0), Wide(57005, 48879), Wide(65535, 65535), Wide(65536, 0)}

CacheLifetimeSamples == {-1, 0, 5, 255, 256}

AddressObjectSamples ==
    {[cls |-> IPv4Address, packed |-> a] : a \in IPv4Samples}
    \cup {[cls |-> IPv6Address, packed |-> a] : a \in IPv6Samples}

----------------------------------------------------------------------------
(* The state machine: a program that holds a byte string and the objects it   *)
(* made of it, and calls the library.                                          *)

Call(name, args) == [name |-> name, args |-> args]

\* The translator child before it is spawned.
NoProcess == [state |-> "none", stdin |-> <<>>, stdin_closed |-> FALSE, signals |-> <<>>]

\* main() has not been called: the module has been loaded with its Settings.
MainNotCalled ==
    /\ TRANSPORT = "unix"
    /\ signal_caught_event = FALSE
    /\ signals_caught = 0
    /\ main_pc = "not called"
    /\ main_raised = NoExc
    /\ server = "none"
    /\ commands = <<>>
    /\ translator_thread_data_objects = <<>>
    /\ tundra_process = NoProcess

Init ==
    /\ wireformat_bytes \in ReceivedFrames
    /\ message = NoMsg
    /\ response = NoMsg
    /\ raised = NoExc
    /\ last_call = Call("receive", <<>>)
    /\ encoded_from = NoMsg
    /\ decoded_from = NoBytes
    /\ detected_class = NoClass
    /\ ALLOW_TRANSLATION_OF_PRIVATE_IPS = TRUE
    /\ translation = NoTranslation
    /\ written = <<>>
    /\ connections = <<>>
    /\ MainNotCalled

\* The byte string at hand has not been decoded yet.
BytesAtHand == last_call.name \in {"receive", "to_wireformat"}

\* What a from_wireformat() call that returned r leaves behind.
Decode(cls, r) ==
    /\ message' = r.value
    /\ raised' = r.exc
    /\ decoded_from' = IF r.exc = NoExc THEN wireformat_bytes ELSE NoBytes
    /\ response' = NoMsg
    /\ last_call' = Call("from_wireformat", <<cls>>)
    /\ UNCHANGED <<wireformat_bytes, encoded_from>>
    /\ UNCHANGED <<detected_class, request_vars, server_vars, driver_vars>>

\* RequestMessage.from_wireformat(wireformat_bytes)
RequestFromWireformat ==
    /\ BytesAtHand
    /\ Decode(RequestMessageCls, from_wireformat(RequestMessageCls, wireformat_bytes))

\* SuccessfulResponseMessage.from_wireformat(wireformat_bytes)
SuccessfulResponseFromWireformat ==
    /\ BytesAtHand
    /\ Decode(SuccessfulResponseMessageCls, from_wireformat(SuccessfulResponseMessageCls, wireformat_bytes))

\* ErroneousResponseMessage.from_wireformat(wireformat_bytes)
ErroneousResponseFromWireformat ==
    /\ BytesAtHand
    /\ Decode(ErroneousResponseMessageCls, from_wireformat(ErroneousResponseMessageCls, wireformat_bytes))

\* WireformatParsingHelpers.detect_message_class_from_wireformat(wireformat_bytes)
DetectMessageClassFromWireformat ==
    /\ BytesAtHand
    /\ LET r == detect_message_class_from_wireformat(wireformat_bytes)
       IN  /\ detected_class' = r.value
           /\ raised' = r.exc
    /\ last_call' = Call("detect_message_class_from_wireformat", <<>>)
    /\ UNCHANGED <<wireformat_bytes, message, response, encoded_from, decoded_from>>
    /\ UNCHANGED <<request_vars, server_vars, driver_vars>>

\* WireformatParsingHelpers.instantiate_appropriate_message_class_from_wireformat(wireformat_bytes)
InstantiateAppropriateMessageClassFromWireformat ==
    /\ BytesAtHand
    /\ LET r == instantiate_appropriate_message_class_from_wireformat(wireformat_bytes)
       IN  /\ message' = r.value
           /\ raised' = r.exc
           /\ decoded_from' = IF r.exc = NoExc THEN wireformat_bytes ELSE NoBytes
    /\ response' = NoMsg
    /\ last_call' = Call("instantiate_appropriate_message_class_from_wireformat", <<>>)
    /\ UNCHANGED <<wireformat_bytes, encoded_from>>
    /\ UNCHANGED <<detected_class, request_vars, server_vars, driver_vars>>

\* The constructors do not read the byte string: they are called by the program
\* that received nothing.
NothingReceived == last_call.name = "receive" /\ wireformat_bytes = <<>>

\* What a constructor call that returned r leaves behind.
Construct(cls, args, r) ==
    /\ message' = r.value
    /\ raised' = r.exc
    /\ last_call' = Call("new", <<cls, args>>)
    /\ UNCHANGED <<wireformat_bytes, response, encoded_from, decoded_from>>
    /\ UNCHANGED <<detected_class, request_vars, server_vars, driver_vars>>

\* RequestMessage(t, n, s, d)
NewRequestMessage ==
    /\ NothingReceived
    /\ \E t \in MessageType, n \in IdentifierSamples, s \in AddressObjectSamples, d \in AddressObjectSamples :
          Construct(RequestMessageCls,
                    [message_type |-> t, message_identifier |-> n,
                     source_ip_address |-> s, destination_ip_address |-> d],
                    RequestMessage(t, n, s, d))

\* SuccessfulResponseMessage(t, c, n, s, d)
NewSuccessfulResponseMessage ==
    /\ NothingReceived
    /\ \E t \in MessageType, c \in CacheLifetimeSamples, n \in IdentifierSamples,
          s \in AddressObjectSamples, d \in AddressObjectSamples :
          Construct(SuccessfulResponseMessageCls,
                    [message_type |-> t, cache_lifetime |-> c, message_identifier |-> n,
                     source_ip_address |-> s, destination_ip_address |-> d],
                    SuccessfulResponseMessage(t, c, n, s, d))

\* ErroneousResponseMessage(i, t, n)
NewErroneousResponseMessage ==
    /\ NothingReceived
    /\ \E i \in BOOLEAN, t \in MessageType, n \in IdentifierSamples :
          Construct(ErroneousResponseMessageCls,
                    [icmp_bit |-> i, message_type |-> t, message_identifier |-> n],
                    ErroneousResponseMessage(i, t, n))

\* An object has just been made (constructed or decoded) and not encoded yet.
ObjectAtHand == last_call.name \in {"new", "from_wireformat"} /\ message # NoMsg

\* message.to_wireformat()
MessageToWireformat ==
    /\ ObjectAtHand
    /\ LET r == to_wireformat(message)
       IN  /\ wireformat_bytes' = r.value
           /\ raised' = r.exc
    /\ encoded_from' = message
    /\ last_call' = Call("to_wireformat", <<"message">>)
    /\ UNCHANGED <<message, response, decoded_from>>
    /\ UNCHANGED <<detected_class, request_vars, server_vars, driver_vars>>

\* message.generate_successful_response(c, s, d), message a RequestMessage
GenerateSuccessfulResponse ==
    /\ ObjectAtHand
    /\ message.cls = RequestMessageCls
    /\ \E c \in CacheLifetimeSamples, s \in AddressObjectSamples, d \in AddressObjectSamples :
          LET r == generate_successful_response(message, c, s, d)
          IN  /\ response' = r.value
              /\ raised' = r.exc
              /\ last_call' = Call("generate_successful_response",
                                   [cache_lifetime |-> c, source_ip_address |-> s,
                                    destination_ip_address |-> d])
    /\ UNCHANGED <<wireformat_bytes, message, encoded_from, decoded_from>>
    /\ UNCHANGED <<detected_class, request_vars, server_vars, driver_vars>>

\* message.generate_erroneous_response(i), message a RequestMessage
GenerateErroneousResponse ==
    /\ ObjectAtHand
    /\ message.cls = RequestMessageCls
    /\ \E i \in BOOLEAN :
          LET r == generate_erroneous_response(message, i)
          IN  /\ response' = r.value
              /\ raised' = r.exc
              /\ last_call' = Call("generate_erroneous_response", [icmp_bit |-> i])
    /\ UNCHANGED <<wireformat_bytes, message, encoded_from, decoded_from>>
    /\ UNCHANGED <<detected_class, request_vars, server_vars, driver_vars>>

\* response.to_wireformat(), response the object a factory returned
ResponseToWireformat ==
    /\ last_call.name \in {"generate_successful_response", "generate_erroneous_response"}
    /\ response # NoMsg
    /\ LET r == to_wireformat(response)
       IN  /\ wireformat_bytes' = r.value
           /\ raised' = r.exc
    /\ encoded_from' = response
    /\ last_call' = Call("to_wireformat", <<"response">>)
    /\ UNCHANGED <<message, response, decoded_from>>
    /\ UNCHANGED <<detected_class, request_vars, server_vars, driver_vars>>

Next ==
    \/ RequestFromWireformat
    \/ SuccessfulResponseFromWireformat
    \/ ErroneousResponseFromWireformat
    \/ DetectMessageClassFromWireformat
    \/ InstantiateAppropriateMessageClassFromWireformat
    \/ NewRequestMessage
    \/ NewSuccessfulResponseMessage
    \/ NewErroneousResponseMessage
    \/ MessageToWireformat
    \/ GenerateSuccessfulResponse
    \/ GenerateErroneousResponse
    \/ ResponseToWireformat

Spec == Init /\ [][Next]_vars

----------------------------------------------------------------------------
(* The NAT64 example server (examples/001_nat64.py): its settings, the      *)
(* address checks and transforms, and the translation policy.               *)
(*                                                                         *)
(* A function that may raise AddressTranslationFailedExc returns            *)
(* [exc, icmp_bit, value]; icmp_bit is the exception's attribute.           *)

AddressTranslationFailedExc == "AddressTranslationFailedExc"
ThisShouldNeverHappenExc == "ThisShouldNeverHappenExc"

\* Settings.NAT64_IPV4 = 192.168.64.2
NAT64_IPV4 == [cls |-> IPv4Address, packed |-> <<192, 168, 64, 2>>]

\* Settings.NAT64_IPV6 = fd64::2
NAT64_IPV6 == [cls |-> IPv6Address, packed |-> <<253, 100>> \o Zeros(13) \o <<2>>]

\* Settings.NAT64_PREFIX = 64:ff9b::/96
NAT64_PREFIX == [network_address |-> [cls |-> IPv6Address, packed |-> <<0, 100, 255, 155>> \o Zeros(12)], prefixlen |-> 96]

\* Settings.CACHE_LIFETIME
CACHE_LIFETIME == 5

\* 2^n for n in 0..8
Pow2(n) == CASE n = 0 -> 1 [] n = 1 -> 2 [] n = 2 -> 4 [] n = 3 -> 8 [] n = 4 -> 16
             [] n = 5 -> 32 [] n = 6 -> 64 [] n = 7 -> 128 [] n = 8 -> 256

\* The number of bits of byte i (1-based) that a prefix of prefixlen bits covers.
PrefixBitsInByte(prefixlen, i) ==
    IF prefixlen >= 8 * i THEN 8
    ELSE IF prefixlen <= 8 * (i - 1) THEN 0
    ELSE prefixlen - 8 * (i - 1)

\* address in network, for packed addresses of one version: the leading
\* prefixlen bits agree (ipaddress: _BaseNetwork.__contains__).
InNetwork(packed, network_packed, prefixlen) ==
    /\ Len(packed) = Len(network_packed)
    /\ \A i \in 1..Len(packed) :
          LET drop == Pow2(8 - PrefixBitsInByte(prefixlen, i))
          IN  packed[i] \div drop = network_packed[i] \div drop

\* ipaddress.IPv4Address / IPv6Address .is_unspecified
is_unspecified(ip_address) ==
    ip_address.packed = Zeros(Len(ip_address.packed))

\* ipaddress .is_loopback: 127.0.0.0/8, or ::1
is_loopback(ip_address) ==
    IF ip_address.cls = IPv4Address
    THEN InNetwork(ip_address.packed, <<127, 0, 0, 0>>, 8)
    ELSE ip_address.packed = Zeros(15) \o <<1>>

\* ipaddress .is_multicast: 224.0.0.0/4, or ff00::/8
is_multicast(ip_address) ==
    IF ip_address.cls = IPv4Address
    THEN InNetwork(ip_address.packed, <<224, 0, 0, 0>>, 4)
    ELSE InNetwork(ip_address.packed, <<255>> \o Zeros(15), 8)

\* ipaddress._IPv4Constants._private_networks
IPv4PrivateNetworks ==
    {<<<<0, 0, 0, 0>>, 8>>, <<<<10, 0, 0, 0>>, 8>>, <<<<127, 0, 0, 0>>, 8>>,
     <<<<169, 254, 0, 0>>, 16>>, <<<<172, 16, 0, 0>>, 12>>, <<<<192, 0, 0, 0>>, 29>>,
     <<<<192, 0, 0, 170>>, 31>>, <<<<192, 0, 2, 0>>, 24>>, <<<<192, 168, 0, 0>>, 16>>,
     <<<<198, 18, 0, 0>>, 15>>, <<<<198, 51, 100, 0>>, 24>>, <<<<203, 0, 113, 0>>, 24>>,
     <<<<240, 0, 0, 0>>, 4>>, <<<<255, 255, 255, 255>>, 32>>}

\* ipaddress._IPv6Constants._private_networks
IPv6PrivateNetworks ==
    {<<Zeros(15) \o <<1>>, 128>>, <<Zeros(16), 128>>,
     <<Zeros(10) \o <<255, 255>> \o Zeros(4), 96>>,
     <<<<1>> \o Zeros(15), 64>>,
     <<<<32, 1>> \o Zeros(14), 23>>,
     <<<<32, 1, 0, 2>> \o Zeros(12), 48>>,
     <<<<32, 1, 13, 184>> \o Zeros(12), 32>>,
     <<<<32, 1, 0, 16>> \o Zeros(12), 28>>,
     <<<<252>> \o Zeros(15), 7>>,
     <<<<254, 128>> \o Zeros(14), 10>>}

\* ipaddress .is_private
is_private(ip_address) ==
    IF ip_address.cls = IPv4Address
    THEN \E net \in IPv4PrivateNetworks : InNetwork(ip_address.packed, net[1], net[2])
    ELSE \E net \in IPv6PrivateNetworks : InNetwork(ip_address.packed, net[1], net[2])

\* packed_ip_address[0] == b'\x00': an int compared with a bytes object.  Python
\* finds the two unequal whatever their values.
IntEqualsBytes(int_value, bytes_value) == FALSE

\* Returned by a check that passed, and by a transform with its value.
Passed == [exc |-> NoExc, icmp_bit |-> FALSE, value |-> <<>>]

Returned(value) == [exc |-> NoExc, icmp_bit |-> FALSE, value |-> value]

Failed(icmp_bit) == [exc |-> AddressTranslationFailedExc, icmp_bit |-> icmp_bit, value |-> <<>>]

\* check_if_ip_address_is_usable that lets multicast addresses through.
check_if_ip_address_is_usable_MulticastAllowed(ip_address) ==
    IF is_unspecified(ip_address) \/ is_loopback(ip_address)
    THEN Failed(FALSE)
    ELSE IF ip_address.cls = IPv4Address
            /\ (IntEqualsBytes(ip_address.packed[1], <<0>>) \/ ip_address.packed = <<255, 255, 255, 255>>)
    THEN Failed(FALSE)
    ELSE Passed

\* check_if_ip_address_is_usable
check_if_ip_address_is_usable(ip_address) ==
    IF is_unspecified(ip_address) \/ is_loopback(ip_address) \/ is_multicast(ip_address)
    THEN Failed(FALSE)
    ELSE IF ip_address.cls = IPv4Address
            /\ (IntEqualsBytes(ip_address.packed[1], <<0>>) \/ ip_address.packed = <<255, 255, 255, 255>>)
    THEN Failed(FALSE)
    ELSE Passed

\* check_if_ip_address_is_not_private_if_needed that raises with icmp_bit=False.
check_if_ip_address_is_not_private_if_needed_IcmpFalse(ip_address) ==
    IF (~ALLOW_TRANSLATION_OF_PRIVATE_IPS) /\ is_private(ip_address)
    THEN Failed(FALSE)
    ELSE Passed

\* check_if_ip_address_is_not_private_if_needed
check_if_ip_address_is_not_private_if_needed(ip_address) ==
    IF (~ALLOW_TRANSLATION_OF_PRIVATE_IPS) /\ is_private(ip_address)
    THEN Failed(TRUE)
    ELSE Passed

\* perform_prefix_4to6_translation that keeps the first three bytes of the address.
perform_prefix_4to6_translation_ThreeBytes(ipv4_address) ==
    Returned([cls |-> IPv6Address,
              packed |-> SubSeq(NAT64_PREFIX.network_address.packed, 1, 13)
                            \o SubSeq(ipv4_address.packed, 1, 3)])

\* perform_prefix_4to6_translation
perform_prefix_4to6_translation(ipv4_address) ==
    Returned([cls |-> IPv6Address,
              packed |-> SubSeq(NAT64_PREFIX.network_address.packed, 1, 12) \o ipv4_address.packed])

\* perform_prefix_6to4_translation
perform_prefix_6to4_translation(ipv4_in_nat64_prefix) ==
    IF InNetwork(ipv4_in_nat64_prefix.packed, NAT64_PREFIX.network_address.packed, NAT64_PREFIX.prefixlen)
    THEN Returned([cls |-> IPv4Address, packed |-> SubSeq(ipv4_in_nat64_prefix.packed, 13, 16)])
    ELSE Failed(FALSE)

\* perform_translator_ip_4to6_translation that answers for every address.
perform_translator_ip_4to6_translation_AnyAddress(ipv4_address) ==
    Returned(NAT64_IPV6)

\* perform_translator_ip_4to6_translation
perform_translator_ip_4to6_translation(ipv4_address) ==
    IF ipv4_address = NAT64_IPV4 THEN Returned(NAT64_IPV6) ELSE Failed(FALSE)

\* perform_translator_ip_6to4_translation
perform_translator_ip_6to4_translation(ipv6_address) ==
    IF ipv6_address = NAT64_IPV6 THEN Returned(NAT64_IPV4) ELSE Failed(FALSE)

\* The calls of a block in the order they are made: the first to raise ends the
\* block, otherwise the block goes on to `then'.
FirstFailure(calls, then) ==
    IF \E i \in 1..Len(calls) : calls[i].exc # NoExc
    THEN calls[CHOOSE i \in 1..Len(calls) :
                  /\ calls[i].exc # NoExc
                  /\ \A j \in 1..(i - 1) : calls[j].exc = NoExc]
    ELSE then

\* return f(source), g(destination): f is called first.
ReturnPair(translated_source, translated_destination) ==
    FirstFailure(<<translated_source, translated_destination>>,
                 Returned(<<translated_source.value, translated_destination.value>>))

\* The four checks of a *_MAIN_PACKET branch, in the order they are called.
MainPacketChecks(source_ip_address, destination_ip_address) ==
    <<check_if_ip_address_is_usable(source_ip_address),
      check_if_ip_address_is_usable(destination_ip_address),
      check_if_ip_address_is_not_private_if_needed(source_ip_address),
      check_if_ip_address_is_not_private_if_needed(destination_ip_address)>>

\* perform_address_translation that runs the four checks for every message type.
perform_address_translation_AlwaysChecked(message_type, source_ip_address, destination_ip_address) ==
    CASE message_type = MT_4TO6_MAIN_PACKET ->
            FirstFailure(MainPacketChecks(source_ip_address, destination_ip_address),
                         ReturnPair(perform_prefix_4to6_translation(source_ip_address),
                                    perform_translator_ip_4to6_translation(destination_ip_address)))
      [] message_type = MT_4TO6_ICMP_ERROR_PACKET ->
            FirstFailure(MainPacketChecks(source_ip_address, destination_ip_address),
                         ReturnPair(perform_translator_ip_4to6_translation(source_ip_address),
                                    perform_prefix_4to6_translation(destination_ip_address)))
      [] message_type = MT_6TO4_MAIN_PACKET ->
            FirstFailure(MainPacketChecks(source_ip_address, destination_ip_address),
                         ReturnPair(perform_translator_ip_6to4_translation(source_ip_address),
                                    perform_prefix_6to4_translation(destination_ip_address)))
      [] message_type = MT_6TO4_ICMP_ERROR_PACKET ->
            FirstFailure(MainPacketChecks(source_ip_address, destination_ip_address),
                         ReturnPair(perform_prefix_6to4_translation(source_ip_address),
                                    perform_translator_ip_6to4_translation(destination_ip_address)))
      [] OTHER -> [exc |-> ThisShouldNeverHappenExc, icmp_bit |-> FALSE, value |-> <<>>]

\* perform_address_translation
perform_address_translation(message_type, source_ip_address, destination_ip_address) ==
    CASE message_type = MT_4TO6_MAIN_PACKET ->
            FirstFailure(MainPacketChecks(source_ip_address, destination_ip_address),
                         ReturnPair(perform_prefix_4to6_translation(source_ip_address),
                                    perform_translator_ip_4to6_translation(destination_ip_address)))
      [] message_type = MT_4TO6_ICMP_ERROR_PACKET ->
            ReturnPair(perform_translator_ip_4to6_translation(source_ip_address),
                       perform_prefix_4to6_translation(destination_ip_address))
      [] message_type = MT_6TO4_MAIN_PACKET ->
            FirstFailure(MainPacketChecks(source_ip_address, destination_ip_address),
                         ReturnPair(perform_translator_ip_6to4_translation(source_ip_address),
                                    perform_prefix_6to4_translation(destination_ip_address)))
      [] message_type = MT_6TO4_ICMP_ERROR_PACKET ->
            ReturnPair(perform_prefix_6to4_translation(source_ip_address),
                       perform_translator_ip_6to4_translation(destination_ip_address))
      [] OTHER -> [exc |-> ThisShouldNeverHappenExc, icmp_bit |-> FALSE, value |-> <<>>]

\* What one call of handle_client_request leaves behind: the exception that left
\* it (NoExc when it returned), the request it decoded, what the translation did,
\* the response it built and the bytes it wrote.
Handled(exc, request_message, translated, response_message, bytes) ==
    [exc |-> exc, request_message |-> request_message, translation |-> translated,
     response_message |-> response_message, written |-> bytes]

\* handle_client_request, lines 251-253: the response is encoded and written.
WriteResponse(request_message, translated, response_message, bytes) ==
    IF bytes.exc # NoExc
    THEN Handled(bytes.exc, request_message, translated, response_message, <<>>)
    ELSE Handled(NoExc, request_message, translated, response_message, bytes.value)

\* handle_client_request, lines 235-249: the translation, and the response built
\* from what it returned or raised.
BuildResponse(request_message, translated) ==
    IF translated.exc \notin {NoExc, AddressTranslationFailedExc}
    THEN Handled(translated.exc, request_message, translated, NoMsg, <<>>)
    ELSE LET response_message ==
                 IF translated.exc = AddressTranslationFailedExc
                 THEN generate_erroneous_response(request_message, translated.icmp_bit)
                 ELSE generate_successful_response(request_message, CACHE_LIFETIME,
                                                   translated.value[1], translated.value[2])
         IN  IF response_message.exc # NoExc
             THEN Handled(response_message.exc, request_message, translated, NoMsg, <<>>)
             ELSE WriteResponse(request_message, translated, response_message.value,
                                to_wireformat(response_message.value))

\* handle_client_request, from line 235 on, given what from_wireformat returned or raised.
TranslateRequest(request) ==
    IF request.exc # NoExc
    THEN Handled(request.exc, NoMsg, NoTranslation, NoMsg, <<>>)
    ELSE BuildResponse(request.value,
                       perform_address_translation(request.value.message_type,
                                                   request.value.source_ip_address,
                                                   request.value.destination_ip_address))

\* handle_client_request, given the 40 bytes readexactly() returned
handle_client_request(frame) ==
    TranslateRequest(RequestMessage_from_wireformat(frame))

----------------------------------------------------------------------------
(* One request of a client of the NAT64 server: the frame readexactly()      *)
(* returned, and what handle_client_request() makes of it.                   *)

\* 192.168.64.2 (the translator), 192.168.64.3, 8.8.8.8, 1.2.3.4, 10.0.0.1,
\* 0.0.0.0, 127.0.0.1, 224.0.0.1, 0.1.2.3 and 255.255.255.255
RequestIPv4Samples ==
    {<<192, 168, 64, 2>>, <<192, 168, 64, 3>>, <<8, 8, 8, 8>>, <<1, 2, 3, 4>>, <<10, 0, 0, 1>>,
     <<0, 0, 0, 0>>, <<127, 0, 0, 1>>, <<224, 0, 0, 1>>, <<0, 1, 2, 3>>, <<255, 255, 255, 255>>}

\* fd64::2 (the translator), 64:ff9b::808:808, 2001:db8::1, 2606:4700::1111,
\* fd00::1, ::, ::1 and ff02::1
RequestIPv6Samples ==
    {<<253, 100>> \o Zeros(13) \o <<2>>,
     <<0, 100, 255, 155>> \o Zeros(8) \o <<8, 8, 8, 8>>,
     <<32, 1, 13, 184>> \o Zeros(11) \o <<1>>,
     <<38, 6, 71, 0>> \o Zeros(10) \o <<17, 17>>,
     <<253, 0>> \o Zeros(13) \o <<1>>,
     Zeros(16),
     Zeros(15) \o <<1>>,
     <<255, 2>> \o Zeros(13) \o <<1>>}

\* 0xDEADBEEF and 1
RequestIdentifierSamples == {<<222, 173, 190, 239>>, <<0, 0, 0, 1>>}

\* The request frames a client sends: each message type with each pair of
\* addresses of the version the type carries.
RequestFrames ==
    {<<MAGIC_BYTE, PROTOCOL_VERSION, code, 0>> \o identifier \o source \o Zeros(12) \o destination \o Zeros(12) :
        code \in {1, 2}, identifier \in RequestIdentifierSamples,
        source \in RequestIPv4Samples, destination \in RequestIPv4Samples}
    \cup
    {<<MAGIC_BYTE, PROTOCOL_VERSION, code, 0>> \o identifier \o source \o destination :
        code \in {3, 4}, identifier \in RequestIdentifierSamples,
        source \in RequestIPv6Samples, destination \in RequestIPv6Samples}

\* 40-byte frames that are not requests: a 4TO6 main request from 8.8.8.8 to the
\* translator with its magic byte zeroed, with version 2, with type code 0 and 5,
\* with a non-zero byte in the padding of its source and of its destination, with
\* the icmp bit set; and a successful and an erroneous response.
MalformedFrames ==
    LET addresses == <<8, 8, 8, 8>> \o Zeros(12) \o <<192, 168, 64, 2>> \o Zeros(12)
        identifier == <<222, 173, 190, 239>>
    IN  {<<0, PROTOCOL_VERSION, 1, 0>> \o identifier \o addresses,
         <<MAGIC_BYTE, 2, 1, 0>> \o identifier \o addresses,
         <<MAGIC_BYTE, PROTOCOL_VERSION, 0, 0>> \o identifier \o addresses,
         <<MAGIC_BYTE, PROTOCOL_VERSION, 5, 0>> \o identifier \o addresses,
         <<MAGIC_BYTE, PROTOCOL_VERSION, 1, 0>> \o identifier
            \o <<8, 8, 8, 8>> \o Zeros(11) \o <<1>> \o <<192, 168, 64, 2>> \o Zeros(12),
         <<MAGIC_BYTE, PROTOCOL_VERSION, 1, 0>> \o identifier
            \o <<8, 8, 8, 8>> \o Zeros(12) \o <<192, 168, 64, 2, 1>> \o Zeros(11),
         <<MAGIC_BYTE, PROTOCOL_VERSION, 33, 0>> \o identifier \o addresses,
         <<MAGIC_BYTE, PROTOCOL_VERSION, 129, 5>> \o identifier
            \o <<0, 100, 255, 155>> \o Zeros(8) \o <<8, 8, 8, 8>> \o <<253, 100>> \o Zeros(13) \o <<2>>,
         <<MAGIC_BYTE, PROTOCOL_VERSION, 193, 0>> \o identifier \o Zeros(32)}

InitRequest ==
    /\ ALLOW_TRANSLATION_OF_PRIVATE_IPS \in BOOLEAN
    /\ wireformat_bytes \in RequestFrames \cup MalformedFrames
    /\ message = NoMsg
    /\ response = NoMsg
    /\ raised = NoExc
    /\ translation = NoTranslation
    /\ written = <<>>
    /\ last_call = Call("readexactly", <<NoMsg>>)
    /\ encoded_from = NoMsg
    /\ decoded_from = NoBytes
    /\ detected_class = NoClass
    /\ connections = <<>>
    /\ MainNotCalled

\* handle_client_request(), from the return of readexactly() to the return of drain()
HandleClientRequest ==
    /\ last_call.name = "readexactly"
    /\ LET handled == handle_client_request(wireformat_bytes)
       IN  /\ message' = handled.request_message
           /\ translation' = handled.translation
           /\ response' = handled.response_message
           /\ written' = handled.written
           /\ raised' = handled.exc
    /\ last_call' = Call("handle_client_request", last_call.args)
    /\ UNCHANGED <<wireformat_bytes, ALLOW_TRANSLATION_OF_PRIVATE_IPS>>
    /\ UNCHANGED <<encoded_from, decoded_from, detected_class, server_vars, driver_vars>>

\* The message type of the packets that go the other way.
ReverseMessageType(message_type) ==
    CASE message_type = MT_4TO6_MAIN_PACKET -> MT_6TO4_MAIN_PACKET
      [] message_type = MT_6TO4_MAIN_PACKET -> MT_4TO6_MAIN_PACKET
      [] message_type = MT_4TO6_ICMP_ERROR_PACKET -> MT_6TO4_ICMP_ERROR_PACKET
      [] message_type = MT_6TO4_ICMP_ERROR_PACKET -> MT_4TO6_ICMP_ERROR_PACKET

\* The client's next request on the connection, when it asks about the packet
\* that answers the translated one: its addresses are the translated addresses,
\* exchanged, and its type is the one of the other direction.  The request
\* answered so far is remembered in last_call.
ReadReverseRequest ==
    /\ last_call = Call("handle_client_request", <<NoMsg>>)
    /\ raised = NoExc
    /\ response.cls = SuccessfulResponseMessageCls
    /\ LET reverse == RequestMessage(ReverseMessageType(message.message_type),
                                     message.message_identifier,
                                     response.destination_ip_address,
                                     response.source_ip_address)
       IN  /\ reverse.exc = NoExc
           /\ wireformat_bytes' = to_wireformat(reverse.value).value
    /\ last_call' = Call("readexactly", <<message>>)
    /\ message' = NoMsg
    /\ response' = NoMsg
    /\ translation' = NoTranslation
    /\ written' = <<>>
    /\ UNCHANGED <<raised, ALLOW_TRANSLATION_OF_PRIVATE_IPS>>
    /\ UNCHANGED <<encoded_from, decoded_from, detected_class, server_vars, driver_vars>>

NextRequest ==
    \/ HandleClientRequest
    \/ ReadReverseRequest

SpecRequest == InitRequest /\ [][NextRequest]_vars

----------------------------------------------------------------------------
(* The connections of the NAT64 server: one handle_client() task per client,  *)
(* stepping from one await to the next, and the clients that feed them.       *)
(*                                                                            *)
(* A connection is a record:                                                  *)
(*   sent       the bytes the client has sent, in order                       *)
(*   received   the bytes fed to the StreamReader and not read yet            *)
(*   eof        the peer has closed its sending side                          *)
(*   pc         the await handle_client is suspended at, or "done"            *)
(*   requests   the byte strings readexactly() has returned, in order         *)
(*   responses  the byte strings passed to stream_writer.write(), in order    *)
(*   closed     stream_writer.close() has been called                         *)
(*   ended_by   the exception that ended the loop of handle_client            *)
(*   propagated the exception handle_client raised to its caller (NoExc when  *)
(*              it returned or has not finished)                              *)

EOFError == "EOFError"
OSError == "OSError"
CancelledError == "CancelledError"

Clients == {"client1", "client2"}

\* The clients send at most MaxFrames frames in all.
MaxFrames == 3

\* The bytes a client sends before it goes away in the middle of a frame.
TruncatedLength == 17

\* The frames the clients send: scenarios S1 (translated) and S2 (refused), and
\* a frame that is not a request: S6 (its magic byte zeroed).
ClientFrames ==
    LET identifier == <<222, 173, 190, 239>>
        source == <<8, 8, 8, 8>> \o Zeros(12)
    IN  {<<MAGIC_BYTE, PROTOCOL_VERSION, 1, 0>> \o identifier \o source \o <<192, 168, 64, 2>> \o Zeros(12),
         <<MAGIC_BYTE, PROTOCOL_VERSION, 1, 0>> \o <<0, 0, 0, 1>> \o source \o <<192, 168, 64, 3>> \o Zeros(12),
         <<0, PROTOCOL_VERSION, 1, 0>> \o identifier \o source \o <<192, 168, 64, 2>> \o Zeros(12)}

NewConnection ==
    [sent |-> <<>>, received |-> <<>>, eof |-> FALSE, pc |-> "readexactly", requests |-> <<>>,
     responses |-> <<>>, closed |-> FALSE, ended_by |-> NoExc, propagated |-> NoExc]

InitServer ==
    /\ connections = [client \in Clients |-> NewConnection]
    /\ ALLOW_TRANSLATION_OF_PRIVATE_IPS = TRUE
    /\ wireformat_bytes = <<>>
    /\ message = NoMsg
    /\ response = NoMsg
    /\ raised = NoExc
    /\ last_call = Call("start_server", <<>>)
    /\ encoded_from = NoMsg
    /\ decoded_from = NoBytes
    /\ detected_class = NoClass
    /\ translation = NoTranslation
    /\ written = <<>>
    /\ MainNotCalled

\* The number of bytes the clients have sent.
RECURSIVE TotalBytesSent(_)
TotalBytesSent(clients) ==
    IF clients = {} THEN 0
    ELSE LET client == CHOOSE c \in clients : TRUE
         IN  Len(connections[client].sent) + TotalBytesSent(clients \ {client})

\* A client sends a frame.
ClientSends(client) ==
    /\ ~connections[client].eof
    /\ ~connections[client].closed
    /\ TotalBytesSent(Clients) + WIREFORMAT_MESSAGE_SIZE <= MaxFrames * WIREFORMAT_MESSAGE_SIZE
    /\ \E frame \in ClientFrames :
          connections' = [connections EXCEPT ![client].sent = @ \o frame,
                                             ![client].received = @ \o frame]
    /\ UNCHANGED <<codec_vars, request_vars, driver_vars>>

\* A client closes its side of the connection, between two frames or after the
\* first TruncatedLength bytes of one.
ClientCloses(client) ==
    /\ ~connections[client].eof
    /\ ~connections[client].closed
    /\ \E truncated \in {<<>>, SubSeq(CHOOSE frame \in ClientFrames : TRUE, 1, TruncatedLength)} :
          connections' = [connections EXCEPT ![client].sent = @ \o truncated,
                                             ![client].received = @ \o truncated,
                                             ![client].eof = TRUE]
    /\ UNCHANGED <<codec_vars, request_vars, driver_vars>>

\* StreamReader.readexactly(n) that leaves the last byte it returns in the buffer.
readexactly_KeepsLastByte(buffer, n) ==
    [data |-> SubSeq(buffer, 1, n), rest |-> SubSeq(buffer, n, Len(buffer))]

\* StreamReader.readexactly(n) on a buffer that holds n bytes or more
readexactly(buffer, n) ==
    [data |-> SubSeq(buffer, 1, n), rest |-> SubSeq(buffer, n + 1, Len(buffer))]

\* handle_client whose except clauses go back to the loop.
EndHandleClient_KeepsReading(connection, exc) ==
    [connection EXCEPT !.ended_by = exc]

\* handle_client whose stream_writer.close() is in its except clauses rather than
\* in a finally clause.
EndHandleClient_CloseInExcept(connection, exc) ==
    [connection EXCEPT !.ended_by = exc, !.closed = (exc # CancelledError), !.pc = "wait_closed"]

\* handle_client, from an exception raised in its loop to the await of
\* wait_closed(): the except clauses, then stream_writer.close().
EndHandleClient(connection, exc) ==
    [connection EXCEPT !.ended_by = exc, !.closed = TRUE, !.pc = "wait_closed"]

\* The exceptions of the library that handle_client catches as InvalidMessageDataExc.
IsInvalidMessageDataExc(exc) == exc \in {InvalidMessageDataExc, InvalidWireformatMessageDataExc}

\* readexactly() returns 40 bytes: handle_client_request decodes them, translates,
\* writes the response and awaits drain(); or the decoding raises.
ReadExactlyReturns(client) ==
    /\ connections[client].pc = "readexactly"
    /\ Len(connections[client].received) >= WIREFORMAT_MESSAGE_SIZE
    /\ LET read == readexactly(connections[client].received, WIREFORMAT_MESSAGE_SIZE)
           handled == handle_client_request(read.data)
           after_read == [connections[client] EXCEPT !.received = read.rest,
                                                     !.requests = Append(@, read.data)]
       IN  connections' =
              [connections EXCEPT ![client] =
                  IF handled.exc = NoExc
                  THEN [after_read EXCEPT !.responses = Append(@, handled.written), !.pc = "drain"]
                  ELSE EndHandleClient(after_read,
                                       IF IsInvalidMessageDataExc(handled.exc)
                                       THEN InvalidMessageDataExc ELSE handled.exc)]
    /\ UNCHANGED <<codec_vars, request_vars, driver_vars>>

\* readexactly() raises IncompleteReadError, an EOFError: the peer has closed and
\* fewer than 40 bytes are left, which the reader drops.
ReadExactlyIncomplete(client) ==
    /\ connections[client].pc = "readexactly"
    /\ connections[client].eof
    /\ Len(connections[client].received) < WIREFORMAT_MESSAGE_SIZE
    /\ connections' = [connections EXCEPT
          ![client] = EndHandleClient([connections[client] EXCEPT !.received = <<>>], EOFError)]
    /\ UNCHANGED <<codec_vars, request_vars, driver_vars>>

\* readexactly() or drain() raises an OSError: the connection was lost.
ConnectionLost(client) ==
    /\ connections[client].pc \in {"readexactly", "drain"}
    /\ connections' = [connections EXCEPT ![client] = EndHandleClient(connections[client], OSError)]
    /\ UNCHANGED <<codec_vars, request_vars, driver_vars>>

\* drain() returns: handle_client_request returns and the loop calls it again.
DrainReturns(client) ==
    /\ connections[client].pc = "drain"
    /\ connections' = [connections EXCEPT ![client].pc = "readexactly"]
    /\ UNCHANGED <<codec_vars, request_vars, driver_vars>>

\* The exceptions the except clauses of handle_client catch.
CaughtByHandleClient(exc) == exc \in {OSError, EOFError, InvalidMessageDataExc}

\* wait_closed() returns, or raises an OSError that is passed over: handle_client
\* returns, or raises again the exception its except clauses did not catch.
WaitClosedReturns(client) ==
    /\ connections[client].pc = "wait_closed"
    /\ connections' = [connections EXCEPT
          ![client].pc = "done",
          ![client].propagated = IF CaughtByHandleClient(connections[client].ended_by)
                                 THEN NoExc ELSE connections[client].ended_by]
    /\ UNCHANGED <<codec_vars, request_vars, driver_vars>>

\* The task of handle_client is cancelled: CancelledError is raised at the await
\* the task is suspended at.  In the loop it passes the except clauses and the
\* finally clause closes the writer; at wait_closed() it leaves the finally clause.
Cancelled(client) ==
    /\ connections[client].pc \in {"readexactly", "drain", "wait_closed"}
    /\ connections' = [connections EXCEPT ![client] =
          IF connections[client].pc = "wait_closed"
          THEN [connections[client] EXCEPT !.pc = "done", !.propagated = CancelledError]
          ELSE EndHandleClient(connections[client], CancelledError)]
    /\ UNCHANGED <<codec_vars, request_vars, driver_vars>>

NextServer ==
    \E client \in Clients :
        \/ ClientSends(client)
        \/ ClientCloses(client)
        \/ ReadExactlyReturns(client)
        \/ ReadExactlyIncomplete(client)
        \/ ConnectionLost(client)
        \/ DrainReturns(client)
        \/ WaitClosedReturns(client)
        \/ Cancelled(client)

SpecServer == InitServer /\ [][NextServer]_vars

----------------------------------------------------------------------------
(* main() of the NAT64 example and its transport drivers: unix_main,        *)
(* tcp_main and inherited_fds_main, with execute_command_sequence() and the *)
(* signal handlers of generate_signal_caught_asyncio_event().  main() runs  *)
(* as one task of the event loop; a step goes from one await to the next.   *)
(* Child processes exit on their own, and the event loop runs the signal    *)
(* handler while main() is suspended.                                       *)
(*                                                                          *)
(* A process of `commands` is a record:                                     *)
(*   sequence   "before" or "after": the command tuple it comes from        *)
(*   command    its command line                                            *)
(*   stdin      what was written to its stdin                               *)
(*   exited     the process has exited                                      *)
(*   exit_code  its exit code, once it has exited                           *)
(* A record of translator_thread_data_objects has:                          *)
(*   task           "running", "done" (handle_client ended by itself),      *)
(*                  "cancelling" or "cancelled"                             *)
(*   cancel_called  inherited_fds_main has called task.cancel()             *)
(*   tundra_socket  "open" or "closed": the end of the pair the child uses  *)
(*   stream_writer  "open" or "closed": the local end                       *)
(* tundra_process has:                                                      *)
(*   state         "none", "running" or "exited"                            *)
(*   stdin         what was written to its stdin                            *)
(*   stdin_closed  its stdin has been closed                                *)
(*   signals       the signals sent to it with send_signal(), in order      *)

CommandFailedExc == "CommandFailedExc"
ProcessLookupError == "ProcessLookupError"
FileNotFoundError == "FileNotFoundError"
ConnectionResetError == "ConnectionResetError"

CAUGHT_SIGNALS == {"SIGTERM", "SIGINT", "SIGHUP"}

Transports == {"unix", "tcp", "inherited-fds"}

INHERITED_FDS_TRANSLATOR_THREADS == 8

INHERITED_FDS_TUNDRA_EXECUTABLE_PATH == "/root/tundra_test/tundra-nat64.elf"

\* The configuration text, by its first and last lines.
INHERITED_FDS_TUNDRA_CONFIGURATION == "program.translator_threads = 8 ... !STOP"

INHERITED_FDS_RUN_COMMANDS_BEFORE_STARTING_TUNDRA ==
    <<"/root/tundra_test/tundra-nat64.elf --config-file=- mktun",
      "ip link set dev tundra up",
      "ip addr add 192.168.64.254/24 dev tundra",
      "ip addr add fd64::fffe/64 dev tundra",
      "ip route add 64:ff9b::/96 dev tundra",
      "ip6tables -t nat -A POSTROUTING -d 64:ff9b::/96 -o tundra -j SNAT --to-source=fd64::2",
      "iptables -t nat -A POSTROUTING -o eth0 -j MASQUERADE",
      "ip6tables -t nat -A POSTROUTING -o eth0 -j MASQUERADE">>

INHERITED_FDS_RUN_COMMANDS_AFTER_STOPPING_TUNDRA ==
    <<"ip6tables -t nat -D POSTROUTING -d 64:ff9b::/96 -o tundra -j SNAT --to-source=fd64::2",
      "iptables -t nat -D POSTROUTING -o eth0 -j MASQUERADE",
      "ip6tables -t nat -D POSTROUTING -o eth0 -j MASQUERADE",
      "/root/tundra_test/tundra-nat64.elf --config-file=- rmtun">>

\* The termination signals handled in one run are at most MaxSignals.
MaxSignals == 2

\* The exit codes of the commands are 0..MaxExitCode.
MaxExitCode == 1

ExitCodes == 0..MaxExitCode

\* str.encode(encoding): the bytes of a text, kept as the text and its encoding.
encode(text, encoding) == [text |-> text, encoding |-> encoding]

InitDriver ==
    /\ TRANSPORT \in Transports
    /\ signal_caught_event = FALSE
    /\ signals_caught = 0
    /\ main_pc = "not called"
    /\ main_raised = NoExc
    /\ server = "none"
    /\ commands = <<>>
    /\ translator_thread_data_objects = <<>>
    /\ tundra_process = NoProcess
    /\ connections = <<>>
    /\ ALLOW_TRANSLATION_OF_PRIVATE_IPS = TRUE
    /\ wireformat_bytes = <<>>
    /\ message = NoMsg
    /\ response = NoMsg
    /\ raised = NoExc
    /\ last_call = Call("asyncio.run", <<>>)
    /\ encoded_from = NoMsg
    /\ decoded_from = NoBytes
    /\ detected_class = NoClass
    /\ translation = NoTranslation
    /\ written = <<>>

\* The command tuple execute_command_sequence() is running: the one before
\* Tundra is started until the translator child exists, the one after it then.
CommandSequence(name) ==
    IF name = "before" THEN INHERITED_FDS_RUN_COMMANDS_BEFORE_STARTING_TUNDRA
    ELSE INHERITED_FDS_RUN_COMMANDS_AFTER_STOPPING_TUNDRA

CurrentSequence == IF tundra_process.state = "none" THEN "before" ELSE "after"

\* The processes created so far for the commands of one tuple.
ProcessesOf(name) == SelectSeq(commands, LAMBDA process : process.sequence = name)

\* An exception leaves the transport driver and main().
Raise(exc) ==
    /\ main_pc' = "exited"
    /\ main_raised' = exc

\* execute_command_sequence() whose loop goes on whatever the exit code is.
CommandFailed_ExitCodeIgnored(exit_code) == FALSE

\* execute_command_sequence(), line 287: the exit code that raises CommandFailedExc.
CommandFailed(exit_code) == exit_code # 0

\* asyncio.Event.wait() that returns whether the event is set or not.
EventWaitReturns_AtOnce(event) == TRUE

\* asyncio.Event.wait() returns once the event is set.
EventWaitReturns(event) == event

\* Process.wait() that returns while the process runs.
ProcessWaitReturns_AtOnce(process) == TRUE

\* Process.wait() returns once the process has exited.
ProcessWaitReturns(process) == process.state = "exited"

\* main(), from its call to the first await of the transport driver: the
\* signal handlers are installed and the driver is selected.  unix_main binds
\* its socket before it is suspended, so it raises here or is left listening;
\* tcp_main is suspended before it binds; inherited_fds_main starts its
\* commands.
Main ==
    /\ main_pc = "not called"
    /\ signal_caught_event' = FALSE
    /\ IF NAT64_PREFIX.prefixlen # 96
       THEN Raise(AssertionError) /\ UNCHANGED server
       ELSE IF TRANSPORT \notin Transports
       THEN Raise(ThisShouldNeverHappenExc) /\ UNCHANGED server
       ELSE IF TRANSPORT = "unix"
       THEN \/ /\ server' = "listening"
               /\ main_pc' = "start_serving"
               /\ UNCHANGED main_raised
            \/ /\ Raise(OSError)
               /\ UNCHANGED server
       ELSE /\ main_pc' = IF TRANSPORT = "tcp" THEN "start_server" ELSE "create_subprocess_shell"
            /\ UNCHANGED <<main_raised, server>>
    /\ UNCHANGED <<TRANSPORT, signals_caught, commands, translator_thread_data_objects, tundra_process>>
    /\ UNCHANGED <<codec_vars, request_vars, server_vars>>

\* The event loop runs _signal_handler() for one of the signals: event.set().
SignalCaught ==
    /\ main_pc \notin {"not called", "exited"}
    /\ signals_caught < MaxSignals
    /\ \E signum \in CAUGHT_SIGNALS :
          /\ signal_caught_event' = TRUE
          /\ signals_caught' = signals_caught + 1
    /\ UNCHANGED <<TRANSPORT, main_pc, main_raised, server, commands, translator_thread_data_objects, tundra_process>>
    /\ UNCHANGED <<codec_vars, request_vars, server_vars>>

\* tcp_main: start_server() binds its sockets and starts serving, or raises.
StartServerBinds ==
    /\ main_pc = "start_server"
    /\ \/ /\ server' = "listening"
          /\ main_pc' = "start_serving"
          /\ UNCHANGED main_raised
       \/ /\ Raise(OSError)
          /\ UNCHANGED server
    /\ UNCHANGED <<TRANSPORT, signal_caught_event, signals_caught, commands, translator_thread_data_objects, tundra_process>>
    /\ UNCHANGED <<codec_vars, request_vars, server_vars>>

\* unix_main / tcp_main: start_unix_server() or start_server() returns, and the
\* driver awaits the event.
StartServerReturns ==
    /\ main_pc = "start_serving"
    /\ main_pc' = "signal_caught_event.wait"
    /\ UNCHANGED <<TRANSPORT, signal_caught_event, signals_caught, main_raised, server, commands, translator_thread_data_objects, tundra_process>>
    /\ UNCHANGED <<codec_vars, request_vars, server_vars>>

\* unix_main / tcp_main: the wait for the event returns; server.close().
StopServer ==
    /\ main_pc = "signal_caught_event.wait"
    /\ TRANSPORT \in {"unix", "tcp"}
    /\ EventWaitReturns(signal_caught_event)
    /\ server' = "closed"
    /\ main_pc' = "server.wait_closed"
    /\ UNCHANGED <<TRANSPORT, signal_caught_event, signals_caught, main_raised, commands, translator_thread_data_objects, tundra_process>>
    /\ UNCHANGED <<codec_vars, request_vars, server_vars>>

\* unix_main / tcp_main: server.wait_closed() returns, the driver returns and
\* main() returns.
ServerWaitClosedReturns ==
    /\ main_pc = "server.wait_closed"
    /\ main_pc' = "exited"
    /\ UNCHANGED <<TRANSPORT, signal_caught_event, signals_caught, main_raised, server, commands, translator_thread_data_objects, tundra_process>>
    /\ UNCHANGED <<codec_vars, request_vars, server_vars>>

\* execute_command_sequence(): create_subprocess_shell() returns the process of
\* the next command; the configuration is written to its stdin and drain() is
\* awaited.
CreateSubprocessShellReturns ==
    /\ main_pc = "create_subprocess_shell"
    /\ LET sequence == CurrentSequence
           index == Len(ProcessesOf(sequence)) + 1
       IN  commands' = Append(commands,
              [sequence |-> sequence,
               command |-> CommandSequence(sequence)[index],
               stdin |-> encode(INHERITED_FDS_TUNDRA_CONFIGURATION, "utf-8"),
               exited |-> FALSE,
               exit_code |-> 0])
    /\ main_pc' = "process.stdin.drain"
    /\ UNCHANGED <<TRANSPORT, signal_caught_event, signals_caught, main_raised, server, translator_thread_data_objects, tundra_process>>
    /\ UNCHANGED <<codec_vars, request_vars, server_vars>>

\* The process of the running command exits.
CommandExits ==
    /\ commands # <<>>
    /\ ~commands[Len(commands)].exited
    /\ \E exit_code \in ExitCodes :
          commands' = [commands EXCEPT ![Len(commands)].exited = TRUE,
                                       ![Len(commands)].exit_code = exit_code]
    /\ UNCHANGED <<TRANSPORT, signal_caught_event, signals_caught, main_pc, main_raised, server, translator_thread_data_objects, tundra_process>>
    /\ UNCHANGED <<codec_vars, request_vars, server_vars>>

\* execute_command_sequence(): process.stdin.drain() returns, or raises
\* ConnectionResetError when the process has exited; process.wait() is awaited.
CommandStdinDrainReturns ==
    /\ main_pc = "process.stdin.drain"
    /\ \/ /\ main_pc' = "process.wait"
          /\ UNCHANGED main_raised
       \/ /\ commands[Len(commands)].exited
          /\ Raise(ConnectionResetError)
    /\ UNCHANGED <<TRANSPORT, signal_caught_event, signals_caught, server, commands, translator_thread_data_objects, tundra_process>>
    /\ UNCHANGED <<codec_vars, request_vars, server_vars>>

\* inherited_fds_main, lines 364-365: the loop over the thread data objects
\* reaches the next one and calls task.cancel(), or is over and
\* execute_command_sequence() is called for the commands after Tundra.
CancelNextTask(thread_data_objects) ==
    LET closed == {i \in DOMAIN thread_data_objects : thread_data_objects[i].tundra_socket = "closed"}
        next == Cardinality(closed) + 1
    IN  IF next > Len(thread_data_objects)
        THEN thread_data_objects
        ELSE [thread_data_objects EXCEPT
                ![next].cancel_called = TRUE,
                ![next].task = IF @ = "running" THEN "cancelling" ELSE @]

\* The await main() is suspended at after CancelNextTask.
AfterCancelNextTask(thread_data_objects) ==
    IF \A i \in DOMAIN thread_data_objects : thread_data_objects[i].tundra_socket = "closed"
    THEN IF INHERITED_FDS_RUN_COMMANDS_AFTER_STOPPING_TUNDRA = <<>> THEN "exited"
         ELSE "create_subprocess_shell"
    ELSE "thread_data.task"

\* execute_command_sequence(): process.wait() returns the exit code; a non-zero
\* one raises CommandFailedExc, and otherwise the loop goes to the next command
\* or the function returns: after the commands before Tundra the driver opens
\* its first channel, after the commands after Tundra main() returns.
CommandWaitReturns ==
    /\ main_pc = "process.wait"
    /\ commands[Len(commands)].exited
    /\ LET process == commands[Len(commands)]
       IN  IF CommandFailed(process.exit_code)
           THEN Raise(CommandFailedExc)
           ELSE /\ main_pc' =
                      IF Len(ProcessesOf(process.sequence)) < Len(CommandSequence(process.sequence))
                      THEN "create_subprocess_shell"
                      ELSE IF process.sequence = "after" THEN "exited"
                      ELSE IF INHERITED_FDS_TRANSLATOR_THREADS = 0 THEN "create_subprocess_exec"
                      ELSE "open_unix_connection"
                /\ UNCHANGED main_raised
    /\ UNCHANGED <<TRANSPORT, signal_caught_event, signals_caught, server, commands, translator_thread_data_objects, tundra_process>>
    /\ UNCHANGED <<codec_vars, request_vars, server_vars>>

\* inherited_fds_main, lines 339-342: a socketpair has been made and
\* open_unix_connection() returns the streams of its local end; the task of
\* handle_client is created and the thread data object appended.
OpenUnixConnectionReturns ==
    /\ main_pc = "open_unix_connection"
    /\ translator_thread_data_objects' = Append(translator_thread_data_objects,
          [task |-> "running", cancel_called |-> FALSE, tundra_socket |-> "open", stream_writer |-> "open"])
    /\ main_pc' = IF Len(translator_thread_data_objects) + 1 < INHERITED_FDS_TRANSLATOR_THREADS
                  THEN "open_unix_connection" ELSE "create_subprocess_exec"
    /\ UNCHANGED <<TRANSPORT, signal_caught_event, signals_caught, main_raised, server, commands, tundra_process>>
    /\ UNCHANGED <<codec_vars, request_vars, server_vars>>

\* A task of handle_client ends by itself (EOF or an invalid frame on its
\* channel): it has closed its writer.
HandleClientEnds ==
    /\ main_pc # "exited"
    /\ \E i \in DOMAIN translator_thread_data_objects :
          /\ translator_thread_data_objects[i].task = "running"
          /\ translator_thread_data_objects' = [translator_thread_data_objects EXCEPT
                ![i].task = "done", ![i].stream_writer = "closed"]
    /\ UNCHANGED <<TRANSPORT, signal_caught_event, signals_caught, main_pc, main_raised, server, commands, tundra_process>>
    /\ UNCHANGED <<codec_vars, request_vars, server_vars>>

\* inherited_fds_main, lines 346-354: create_subprocess_exec() returns the
\* translator child, the configuration is written to its stdin and drain() is
\* awaited; or it raises (the executable is missing).
CreateSubprocessExecReturns ==
    /\ main_pc = "create_subprocess_exec"
    /\ \/ /\ tundra_process' = [state |-> "running",
                                stdin |-> encode(INHERITED_FDS_TUNDRA_CONFIGURATION, "utf-8"),
                                stdin_closed |-> FALSE,
                                signals |-> <<>>]
          /\ main_pc' = "tundra_process.stdin.drain"
          /\ UNCHANGED main_raised
       \/ /\ Raise(FileNotFoundError)
          /\ UNCHANGED tundra_process
    /\ UNCHANGED <<TRANSPORT, signal_caught_event, signals_caught, server, commands, translator_thread_data_objects>>
    /\ UNCHANGED <<codec_vars, request_vars, server_vars>>

\* The translator child exits, by itself or after a signal.
TundraExits ==
    /\ tundra_process.state = "running"
    /\ tundra_process' = [tundra_process EXCEPT !.state = "exited"]
    /\ UNCHANGED <<TRANSPORT, signal_caught_event, signals_caught, main_pc, main_raised, server, commands, translator_thread_data_objects>>
    /\ UNCHANGED <<codec_vars, request_vars, server_vars>>

\* inherited_fds_main, lines 354-357: tundra_process.stdin.drain() returns, or
\* raises ConnectionResetError when the child has exited; the driver awaits the
\* event.
TundraStdinDrainReturns ==
    /\ main_pc = "tundra_process.stdin.drain"
    /\ \/ /\ main_pc' = "signal_caught_event.wait"
          /\ UNCHANGED main_raised
       \/ /\ tundra_process.state = "exited"
          /\ Raise(ConnectionResetError)
    /\ UNCHANGED <<TRANSPORT, signal_caught_event, signals_caught, server, commands, translator_thread_data_objects, tundra_process>>
    /\ UNCHANGED <<codec_vars, request_vars, server_vars>>

\* inherited_fds_main, lines 357-361: the wait for the event returns;
\* send_signal(SIGTERM), which raises ProcessLookupError when the child has
\* exited, and tundra_process.wait() is awaited.
StopTundra ==
    /\ main_pc = "signal_caught_event.wait"
    /\ TRANSPORT = "inherited-fds"
    /\ EventWaitReturns(signal_caught_event)
    /\ IF tundra_process.state = "exited"
       THEN /\ Raise(ProcessLookupError)
            /\ UNCHANGED tundra_process
       ELSE /\ tundra_process' = [tundra_process EXCEPT !.signals = Append(@, "SIGTERM")]
            /\ main_pc' = "tundra_process.wait"
            /\ UNCHANGED main_raised
    /\ UNCHANGED <<TRANSPORT, signal_caught_event, signals_caught, server, commands, translator_thread_data_objects>>
    /\ UNCHANGED <<codec_vars, request_vars, server_vars>>

\* inherited_fds_main, lines 361-367: tundra_process.wait() returns; the loop
\* over the thread data objects starts: task.cancel() and the task is awaited.
TundraWaitReturns ==
    /\ main_pc = "tundra_process.wait"
    /\ ProcessWaitReturns(tundra_process)
    /\ translator_thread_data_objects' = CancelNextTask(translator_thread_data_objects)
    /\ main_pc' = AfterCancelNextTask(translator_thread_data_objects)
    /\ UNCHANGED <<TRANSPORT, signal_caught_event, signals_caught, main_raised, server, commands, tundra_process>>
    /\ UNCHANGED <<codec_vars, request_vars, server_vars>>

\* inherited_fds_main, lines 367-372: the cancelled task has ended (its finally
\* clause has closed its writer) and CancelledError is passed over;
\* tundra_socket.close(), stream_writer.close(), and wait_closed() is awaited.
TaskAwaited ==
    /\ main_pc = "thread_data.task"
    /\ \E i \in DOMAIN translator_thread_data_objects :
          /\ translator_thread_data_objects[i].cancel_called
          /\ translator_thread_data_objects[i].tundra_socket = "open"
          /\ translator_thread_data_objects' = [translator_thread_data_objects EXCEPT
                ![i].task = IF @ = "cancelling" THEN "cancelled" ELSE @,
                ![i].tundra_socket = "closed",
                ![i].stream_writer = "closed"]
    /\ main_pc' = "stream_writer.wait_closed"
    /\ UNCHANGED <<TRANSPORT, signal_caught_event, signals_caught, main_raised, server, commands, tundra_process>>
    /\ UNCHANGED <<codec_vars, request_vars, server_vars>>

\* inherited_fds_main, lines 372-375 and 364-367: wait_closed() returns; the
\* loop goes to the next thread data object, or is over and the commands after
\* Tundra are run.
StreamWriterWaitClosedReturns ==
    /\ main_pc = "stream_writer.wait_closed"
    /\ translator_thread_data_objects' = CancelNextTask(translator_thread_data_objects)
    /\ main_pc' = AfterCancelNextTask(translator_thread_data_objects)
    /\ UNCHANGED <<TRANSPORT, signal_caught_event, signals_caught, main_raised, server, commands, tundra_process>>
    /\ UNCHANGED <<codec_vars, request_vars, server_vars>>

NextDriver ==
    \/ Main
    \/ SignalCaught
    \/ StartServerBinds
    \/ StartServerReturns
    \/ StopServer
    \/ ServerWaitClosedReturns
    \/ CreateSubprocessShellReturns
    \/ CommandExits
    \/ CommandStdinDrainReturns
    \/ CommandWaitReturns
    \/ OpenUnixConnectionReturns
    \/ HandleClientEnds
    \/ CreateSubprocessExecReturns
    \/ TundraExits
    \/ TundraStdinDrainReturns
    \/ StopTundra
    \/ TundraWaitReturns
    \/ TaskAwaited
    \/ StreamWriterWaitClosedReturns

SpecDriver == InitDriver /\ [][NextDriver]_vars

\* The steps of the task of main(): the event loop runs a task whose await can
\* return.
MainSteps ==
    \/ Main
    \/ StartServerBinds
    \/ StartServerReturns
    \/ StopServer
    \/ ServerWaitClosedReturns
    \/ CreateSubprocessShellReturns
    \/ CommandStdinDrainReturns
    \/ CommandWaitReturns
    \/ OpenUnixConnectionReturns
    \/ CreateSubprocessExecReturns
    \/ TundraStdinDrainReturns
    \/ StopTundra
    \/ TundraWaitReturns
    \/ TaskAwaited
    \/ StreamWriterWaitClosedReturns

\* The driver under the scheduling of the event loop: a task that can go on is
\* run.  Nothing makes a child process exit or a signal arrive.
SpecDriverFair == SpecDriver /\ WF_vars(MainSteps)

----------------------------------------------------------------------------
(* Vocabulary of the properties.  The numbers below are the ones the        *)
(* protocol description gives, written out rather than taken from the        *)
(* definitions above, so that the properties test those definitions.         *)

Decoded(cls) == last_call = Call("from_wireformat", <<cls>>)

DecodedAny == last_call.name = "from_wireformat"

Encoded == last_call.name = "to_wireformat"

MessageClasses == {RequestMessageCls, SuccessfulResponseMessageCls, ErroneousResponseMessageCls}

\* The objects that exist in the current state.
ExistingObjects == {message, response, encoded_from} \ {NoMsg}

\* Fields of a 40-byte frame b.
TypeCodeOf(b) == b[3] % 32
ResponseBitOf(b) == (b[3] \div 128) % 2
ErrorBitOf(b) == (b[3] \div 64) % 2
IcmpBitOf(b) == (b[3] \div 32) % 2
SourceFieldOf(b) == SubSeq(b, 9, 24)
DestinationFieldOf(b) == SubSeq(b, 25, 40)

Is4to6(message_type) == message_type \in {MT_4TO6_MAIN_PACKET, MT_4TO6_ICMP_ERROR_PACKET}
IsMainPacket(message_type) == message_type \in {MT_4TO6_MAIN_PACKET, MT_6TO4_MAIN_PACKET}

\* message_identifier in 0..2^32-1, on the two limbs.
FitsUint32(n) == n.hi \in 0..65535 /\ n.lo \in 0..65535

\* The header of b passes: 40 bytes, magic 0x54, version 1, a type code in 1..4.
GoodHeader(b) ==
    /\ Len(b) = 40
    /\ b[1] = 84
    /\ b[2] = 1
    /\ TypeCodeOf(b) \in 1..4

\* The address version a variant carries for a type code: 4, 6, or 0 for absent.
VersionOnWire(cls, code) ==
    CASE cls = RequestMessageCls -> IF code \in {1, 2} THEN 4 ELSE 6
      [] cls = SuccessfulResponseMessageCls -> IF code \in {1, 2} THEN 6 ELSE 4
      [] cls = ErroneousResponseMessageCls -> 0

\* b, a 40-byte frame of variant cls, is in canonical form.
Canonical(b, cls) ==
    /\ VersionOnWire(cls, TypeCodeOf(b)) = 4 =>
          /\ SubSeq(b, 13, 24) = Zeros(12)
          /\ SubSeq(b, 29, 40) = Zeros(12)
    /\ VersionOnWire(cls, TypeCodeOf(b)) = 0 => SubSeq(b, 9, 40) = Zeros(32)
    /\ cls # SuccessfulResponseMessageCls => b[4] = 0

----------------------------------------------------------------------------
(* C1 *)

\* C1: every message object that is encoded yields exactly 40 bytes, and decoding
\* those bytes with the from_wireformat of the object's own class returns an
\* object equal to it in every field.
C1_EncodeDecodeRoundTrip ==
    /\ Encoded => (raised = NoExc /\ Len(wireformat_bytes) = 40)
    /\ (encoded_from # NoMsg /\ Decoded(encoded_from.cls)) =>
          (raised = NoExc /\ message = encoded_from)

\* An erroneous response with icmp_bit set and identifier 0xDEADBEEF made the trip.
C1_Witness ==
    /\ Decoded(ErroneousResponseMessageCls)
    /\ encoded_from # NoMsg
    /\ message = encoded_from
    /\ message.icmp_bit
    /\ message.message_identifier = Wide(57005, 48879)

\* A successful response with an IPv4 pair and cache_lifetime 255 made the trip.
C1_WitnessSuccessful ==
    /\ Decoded(SuccessfulResponseMessageCls)
    /\ encoded_from # NoMsg
    /\ message = encoded_from
    /\ message.cache_lifetime = 255
    /\ message.source_ip_address.cls = IPv4Address

----------------------------------------------------------------------------
(* C2 *)

\* C2: when a message decoded from a canonical 40-byte frame b is encoded again,
\* the bytes returned are b.
C2_DecodeEncodeRoundTrip ==
    (/\ last_call = Call("to_wireformat", <<"message">>)
     /\ decoded_from # NoBytes
     /\ Canonical(decoded_from, message.cls))
    => (raised = NoExc /\ wireformat_bytes = decoded_from)

\* A canonical successful response with cache_lifetime 255 came back byte for byte.
C2_Witness ==
    /\ last_call = Call("to_wireformat", <<"message">>)
    /\ decoded_from # NoBytes
    /\ message.cls = SuccessfulResponseMessageCls
    /\ Canonical(decoded_from, message.cls)
    /\ decoded_from[4] = 255
    /\ wireformat_bytes = decoded_from

\* Outside canonical form the trip does change the bytes (a request sent with
\* cache_lifetime 255 comes back with 0).
C2_NonCanonicalDiffers ==
    /\ last_call = Call("to_wireformat", <<"message">>)
    /\ decoded_from # NoBytes
    /\ message.cls = RequestMessageCls
    /\ decoded_from[4] = 255
    /\ wireformat_bytes # decoded_from

----------------------------------------------------------------------------
(* C3 *)

\* C3: each of the three decoders raises InvalidWireformatMessageDataExc and returns
\* no object when the input is not 40 bytes long, or byte 0 is not 0x54, or byte 1
\* is not 1, or the low five bits of byte 2 are not a type code in 1..4; hence every
\* decoded message comes from a frame whose header is good.
C3_HeaderValidation ==
    DecodedAny =>
        /\ ~GoodHeader(wireformat_bytes) =>
              (raised = InvalidWireformatMessageDataExc /\ message = NoMsg)
        /\ message # NoMsg => (decoded_from = wireformat_bytes /\ GoodHeader(decoded_from))

\* A frame correct in everything but its version byte was refused.
C3_Witness ==
    /\ Decoded(RequestMessageCls)
    /\ Len(wireformat_bytes) = 40
    /\ wireformat_bytes[1] = 84
    /\ wireformat_bytes[2] = 2
    /\ wireformat_bytes[3] = 1
    /\ SourceFieldOf(wireformat_bytes) = <<192, 168, 64, 2>> \o Zeros(12)
    /\ DestinationFieldOf(wireformat_bytes) = <<192, 168, 64, 2>> \o Zeros(12)
    /\ raised = InvalidWireformatMessageDataExc
    /\ message = NoMsg

----------------------------------------------------------------------------
(* C4 *)

\* The flag bits <<response, error, icmp>> of frame b are the ones of variant cls.
FlagsOf(b, cls) ==
    CASE cls = RequestMessageCls ->
            ResponseBitOf(b) = 0 /\ ErrorBitOf(b) = 0 /\ IcmpBitOf(b) = 0
      [] cls = SuccessfulResponseMessageCls ->
            ResponseBitOf(b) = 1 /\ ErrorBitOf(b) = 0 /\ IcmpBitOf(b) = 0
      [] cls = ErroneousResponseMessageCls ->
            ResponseBitOf(b) = 1 /\ ErrorBitOf(b) = 1

\* C4: a frame a variant's decoder accepts carries that variant's flag bits
\* (request 0,0,0; successful response 1,0,0; erroneous response 1,1,any), and
\* so does every frame a variant's to_wireformat returns.
C4_FlagBitsPerVariant ==
    /\ (DecodedAny /\ message # NoMsg) =>
          (message.cls = last_call.args[1] /\ FlagsOf(wireformat_bytes, message.cls))
    /\ (Encoded /\ raised = NoExc) => FlagsOf(wireformat_bytes, encoded_from.cls)

\* An erroneous response with all three flags set was accepted.
C4_Witness ==
    /\ Decoded(ErroneousResponseMessageCls)
    /\ message # NoMsg
    /\ encoded_from = NoMsg
    /\ wireformat_bytes[3] \div 32 = 7

----------------------------------------------------------------------------
(* C5 *)

\* C5: decoding a 40-byte frame whose response and error bits are both set fails
\* unless its source and destination fields are all zero.
C5_AbsentAddressesMustBeZero ==
    (/\ Decoded(ErroneousResponseMessageCls)
     /\ Len(wireformat_bytes) = 40
     /\ ResponseBitOf(wireformat_bytes) = 1
     /\ ErrorBitOf(wireformat_bytes) = 1
     /\ SubSeq(wireformat_bytes, 9, 40) # Zeros(32))
    => (raised # NoExc /\ message = NoMsg)

\* What the decoder does instead: the two address fields of an erroneous response
\* are not looked at, so a frame with a good header and both bits set decodes
\* whatever they hold, unless icmp_bit is set for an ICMP-error type.
C5_AbsentAddressesIgnored ==
    (/\ Decoded(ErroneousResponseMessageCls)
     /\ GoodHeader(wireformat_bytes)
     /\ ResponseBitOf(wireformat_bytes) = 1
     /\ ErrorBitOf(wireformat_bytes) = 1
     /\ ~(IcmpBitOf(wireformat_bytes) = 1 /\ TypeCodeOf(wireformat_bytes) \in {2, 4}))
    => (raised = NoExc /\ message.cls = ErroneousResponseMessageCls)

----------------------------------------------------------------------------
(* C6 *)

\* C6: when the variant and the type code call for IPv4 addresses (a request of a
\* 4TO6 type, a successful response of a 6TO4 type), decoding a frame with a
\* non-zero byte among bytes 4..15 of the source or of the destination field raises
\* InvalidWireformatMessageDataExc; a frame that decodes yields the first four
\* bytes of each field as the address.
C6_IPv4Padding ==
    (/\ DecodedAny
     /\ Len(wireformat_bytes) = 40
     /\ VersionOnWire(last_call.args[1], TypeCodeOf(wireformat_bytes)) = 4)
    => /\ (\/ SubSeq(wireformat_bytes, 13, 24) # Zeros(12)
           \/ SubSeq(wireformat_bytes, 29, 40) # Zeros(12))
          => (raised = InvalidWireformatMessageDataExc /\ message = NoMsg)
       /\ message # NoMsg =>
             /\ message.source_ip_address =
                    [cls |-> IPv4Address, packed |-> SubSeq(wireformat_bytes, 9, 12)]
             /\ message.destination_ip_address =
                    [cls |-> IPv4Address, packed |-> SubSeq(wireformat_bytes, 25, 28)]

\* A request whose header and flags are good was refused for the last padding
\* byte of its destination field alone.
C6_Witness ==
    /\ Decoded(RequestMessageCls)
    /\ GoodHeader(wireformat_bytes)
    /\ wireformat_bytes[3] = 1
    /\ SourceFieldOf(wireformat_bytes) = <<192, 168, 64, 2>> \o Zeros(12)
    /\ DestinationFieldOf(wireformat_bytes) = <<8, 8, 8, 8>> \o Zeros(11) \o <<1>>
    /\ raised = InvalidWireformatMessageDataExc
    /\ message = NoMsg

\* A successful response of a 6TO4 type decoded into two IPv4 addresses.
C6_WitnessDecoded ==
    /\ Decoded(SuccessfulResponseMessageCls)
    /\ encoded_from = NoMsg
    /\ message # NoMsg
    /\ TypeCodeOf(wireformat_bytes) = 3
    /\ message.source_ip_address = [cls |-> IPv4Address, packed |-> <<192, 168, 64, 2>>]

----------------------------------------------------------------------------
(* C7 *)

\* The address class the protocol gives a variant for a message type.
AddressClassFor(cls, message_type) ==
    IF cls = RequestMessageCls
    THEN (IF Is4to6(message_type) THEN IPv4Address ELSE IPv6Address)
    ELSE (IF Is4to6(message_type) THEN IPv6Address ELSE IPv4Address)

Constructed(cls) == last_call.name = "new" /\ last_call.args[1] = cls

\* C7: every RequestMessage has two IPv4 addresses for a 4TO6 type and two IPv6
\* addresses for a 6TO4 type, every SuccessfulResponseMessage the other way round,
\* however the object was made; and constructing either with a source or a
\* destination of the other version raises InvalidMessageDataExc.
C7_AddressVersions ==
    /\ \A m \in ExistingObjects :
          m.cls \in {RequestMessageCls, SuccessfulResponseMessageCls} =>
              /\ m.source_ip_address.cls = AddressClassFor(m.cls, m.message_type)
              /\ m.destination_ip_address.cls = AddressClassFor(m.cls, m.message_type)
    /\ \A cls \in {RequestMessageCls, SuccessfulResponseMessageCls} :
          (/\ Constructed(cls)
           /\ \/ last_call.args[2].source_ip_address.cls #
                     AddressClassFor(cls, last_call.args[2].message_type)
              \/ last_call.args[2].destination_ip_address.cls #
                     AddressClassFor(cls, last_call.args[2].message_type))
          => (raised = InvalidMessageDataExc /\ message = NoMsg)

\* A request of a 4TO6 type, otherwise valid, was refused for its IPv6 destination.
C7_Witness ==
    /\ Constructed(RequestMessageCls)
    /\ last_call.args[2].message_type = MT_4TO6_MAIN_PACKET
    /\ FitsUint32(last_call.args[2].message_identifier)
    /\ last_call.args[2].source_ip_address.cls = IPv4Address
    /\ last_call.args[2].destination_ip_address.cls = IPv6Address
    /\ raised = InvalidMessageDataExc
    /\ message = NoMsg

----------------------------------------------------------------------------
(* C8 *)

\* C8: no ErroneousResponseMessage has icmp_bit set with an ICMP-error message
\* type: the constructor raises InvalidMessageDataExc, and so does from_wireformat
\* on a frame with response, error and icmp bits set and type code 2 or 4; with
\* type code 1 or 3 (the main-packet types) icmp_bit set is accepted by both.
C8_IcmpBit ==
    /\ \A m \in ExistingObjects :
          (m.cls = ErroneousResponseMessageCls /\ m.icmp_bit) => IsMainPacket(m.message_type)
    /\ (Constructed(ErroneousResponseMessageCls) /\ last_call.args[2].icmp_bit) =>
          IF IsMainPacket(last_call.args[2].message_type)
          THEN FitsUint32(last_call.args[2].message_identifier) =>
                  (raised = NoExc /\ message.icmp_bit
                   /\ message.message_type = last_call.args[2].message_type)
          ELSE raised = InvalidMessageDataExc /\ message = NoMsg
    /\ (/\ Decoded(ErroneousResponseMessageCls)
        /\ GoodHeader(wireformat_bytes)
        /\ wireformat_bytes[3] \div 32 = 7) =>
          IF TypeCodeOf(wireformat_bytes) \in {1, 3}
          THEN raised = NoExc /\ message.icmp_bit
               /\ MessageTypeValue(message.message_type) = TypeCodeOf(wireformat_bytes)
          ELSE raised = InvalidMessageDataExc /\ message = NoMsg

\* A received frame with the three flags set and type code 4 was refused by the
\* message model.
C8_Witness ==
    /\ Decoded(ErroneousResponseMessageCls)
    /\ encoded_from = NoMsg
    /\ GoodHeader(wireformat_bytes)
    /\ wireformat_bytes[3] = 228
    /\ raised = InvalidMessageDataExc

\* icmp_bit set was accepted for a main-packet type.
C8_WitnessAccepted ==
    /\ Constructed(ErroneousResponseMessageCls)
    /\ message # NoMsg
    /\ message.icmp_bit
    /\ message.message_type = MT_6TO4_MAIN_PACKET

----------------------------------------------------------------------------
(* C9 *)

\* C9: a constructor called with a message_identifier below 0 or above
\* 4294967295 raises InvalidMessageDataExc, and so does SuccessfulResponseMessage
\* with a cache_lifetime below 0 or above 255; every message object therefore has
\* an identifier of 32 unsigned bits and a cache_lifetime of 8, and to_wireformat
\* never raises struct.error and returns bytes only.
C9_NumericRanges ==
    /\ \A cls \in MessageClasses :
          (Constructed(cls) /\ ~FitsUint32(last_call.args[2].message_identifier)) =>
              (raised = InvalidMessageDataExc /\ message = NoMsg)
    /\ (Constructed(SuccessfulResponseMessageCls) /\ last_call.args[2].cache_lifetime \notin 0..255) =>
          (raised = InvalidMessageDataExc /\ message = NoMsg)
    /\ \A m \in ExistingObjects :
          /\ FitsUint32(m.message_identifier)
          /\ m.cls = SuccessfulResponseMessageCls => m.cache_lifetime \in 0..255
    /\ raised # StructError
    /\ Encoded => \A i \in 1..Len(wireformat_bytes) : wireformat_bytes[i] \in 0..255

\* A request valid in everything but its identifier, 4294967296, was refused.
C9_Witness ==
    /\ Constructed(RequestMessageCls)
    /\ last_call.args[2].message_identifier = Wide(65536, 0)
    /\ last_call.args[2].message_type = MT_6TO4_MAIN_PACKET
    /\ last_call.args[2].source_ip_address.cls = IPv6Address
    /\ last_call.args[2].destination_ip_address.cls = IPv6Address
    /\ raised = InvalidMessageDataExc
    /\ message = NoMsg

\* A successful response valid in everything but its cache_lifetime, 256, was refused.
C9_WitnessCacheLifetime ==
    /\ Constructed(SuccessfulResponseMessageCls)
    /\ last_call.args[2].cache_lifetime = 256
    /\ FitsUint32(last_call.args[2].message_identifier)
    /\ last_call.args[2].message_type = MT_6TO4_MAIN_PACKET
    /\ last_call.args[2].source_ip_address.cls = IPv4Address
    /\ last_call.args[2].destination_ip_address.cls = IPv4Address
    /\ raised = InvalidMessageDataExc

\* The identifier 4294967295 was encoded.
C9_WitnessEncodedMax ==
    /\ Encoded
    /\ encoded_from.message_identifier = Wide(65535, 65535)
    /\ SubSeq(wireformat_bytes, 5, 8) = <<255, 255, 255, 255>>

----------------------------------------------------------------------------
(* C10 *)

GeneratedSuccessful == last_call.name = "generate_successful_response"

GeneratedErroneous == last_call.name = "generate_erroneous_response"

\* What the two factories return, in the state after the call.
C10_Returned ==
    /\ GeneratedSuccessful =>
          LET a == last_call.args
              post == AddressClassFor(SuccessfulResponseMessageCls, message.message_type)
              valid == /\ a.cache_lifetime \in 0..255
                       /\ a.source_ip_address.cls = post
                       /\ a.destination_ip_address.cls = post
          IN  /\ message.cls = RequestMessageCls
              /\ IF valid
                 THEN /\ raised = NoExc
                      /\ response = [cls |-> SuccessfulResponseMessageCls,
                                     message_type |-> message.message_type,
                                     cache_lifetime |-> a.cache_lifetime,
                                     message_identifier |-> message.message_identifier,
                                     source_ip_address |-> a.source_ip_address,
                                     destination_ip_address |-> a.destination_ip_address]
                 ELSE raised = InvalidMessageDataExc /\ response = NoMsg
    /\ GeneratedErroneous =>
          LET a == last_call.args
          IN  /\ message.cls = RequestMessageCls
              /\ IF a.icmp_bit /\ ~IsMainPacket(message.message_type)
                 THEN raised = InvalidMessageDataExc /\ response = NoMsg
                 ELSE /\ raised = NoExc
                      /\ response = [cls |-> ErroneousResponseMessageCls,
                                     icmp_bit |-> a.icmp_bit,
                                     message_type |-> message.message_type,
                                     message_identifier |-> message.message_identifier]

\* C10: generate_successful_response(c, s, d) on a request r returns a
\* SuccessfulResponseMessage with r's message_type and message_identifier and with
\* c, s, d, or raises InvalidMessageDataExc when s or d is not of the
\* post-translation version or c is outside 0..255; generate_erroneous_response(i)
\* returns an ErroneousResponseMessage with r's message_type and message_identifier
\* and icmp_bit i, or raises when i is set and r is of an ICMP-error type; and a
\* factory call leaves r as it was.
C10_ResponseFactories ==
    /\ []C10_Returned
    /\ [][(GeneratedSuccessful' \/ GeneratedErroneous') => (message' = message)]_vars

\* A request decoded from received bytes produced a successful response with its
\* own identifier, and a different source and destination.
C10_Witness ==
    /\ GeneratedSuccessful
    /\ decoded_from # NoBytes
    /\ response # NoMsg
    /\ response.message_identifier = Wide(57005, 48879)
    /\ response.message_identifier = message.message_identifier
    /\ response.cache_lifetime = 5
    /\ response.source_ip_address # response.destination_ip_address

\* A factory call was refused: icmp_bit set for a request of an ICMP-error type.
C10_WitnessRefused ==
    /\ GeneratedErroneous
    /\ last_call.args.icmp_bit
    /\ message.message_type = MT_4TO6_ICMP_ERROR_PACKET
    /\ raised = InvalidMessageDataExc
    /\ response = NoMsg

----------------------------------------------------------------------------
(* C11 *)

\* The class the two top bits of the type byte of a 40-byte frame b name.
ClassByBits(b) ==
    IF ResponseBitOf(b) = 1
    THEN IF ErrorBitOf(b) = 1 THEN ErroneousResponseMessageCls ELSE SuccessfulResponseMessageCls
    ELSE RequestMessageCls

\* The variant decoders that accept the byte string b.
AcceptingClasses(b) == {cls \in MessageClasses : from_wireformat(cls, b).exc = NoExc}

Detected == last_call.name = "detect_message_class_from_wireformat"

Instantiated == last_call.name = "instantiate_appropriate_message_class_from_wireformat"

\* C11: for a 40-byte frame, detect_message_class_from_wireformat returns the
\* class that bits 7 and 6 of the type byte name, whatever the rest of the frame
\* holds; a variant decoder that accepts a frame is the class the bits name, so
\* at most one decoder accepts it; and
\* instantiate_appropriate_message_class_from_wireformat succeeds exactly when
\* some variant decoder accepts the frame, returning an object of that class.
C11_DispatchHelper ==
    /\ (Detected /\ Len(wireformat_bytes) = 40) =>
          /\ raised = NoExc
          /\ detected_class = ClassByBits(wireformat_bytes)
    /\ \A cls \in MessageClasses :
          (Decoded(cls) /\ raised = NoExc) => cls = ClassByBits(wireformat_bytes)
    /\ Instantiated =>
          /\ (raised = NoExc) <=> (AcceptingClasses(wireformat_bytes) # {})
          /\ raised = NoExc =>
                /\ AcceptingClasses(wireformat_bytes) = {message.cls}
                /\ message = from_wireformat(message.cls, wireformat_bytes).value
                /\ message.cls = ClassByBits(wireformat_bytes)

\* An erroneous response frame was instantiated through the helper.
C11_Witness ==
    /\ Instantiated
    /\ raised = NoExc
    /\ message.cls = ErroneousResponseMessageCls

\* The helper named a class for a frame that no decoder accepts.
C11_WitnessDetectedBadMagic ==
    /\ Detected
    /\ raised = NoExc
    /\ Len(wireformat_bytes) = 40
    /\ wireformat_bytes[1] # 84
    /\ detected_class = SuccessfulResponseMessageCls

----------------------------------------------------------------------------
(* Vocabulary of the NAT64 policy properties.  Addresses and the numbers of   *)
(* the default configuration are written out as the specification gives them. *)

\* handle_client_request has been called on the frame at hand.
RequestHandled == last_call.name = "handle_client_request"

\* ... and the frame decoded as a request, so that the policy was asked.
PolicyAsked == RequestHandled /\ message # NoMsg

DefaultConfiguration == ALLOW_TRANSLATION_OF_PRIVATE_IPS = TRUE

TranslationFailed == translation.exc = "AddressTranslationFailedExc"

TranslationSucceeded == translation.exc = NoExc

\* An erroneous response with the given icmp_bit was built and written.
AnsweredErroneous(icmp_bit) ==
    /\ raised = NoExc
    /\ response.cls = ErroneousResponseMessageCls
    /\ response.icmp_bit = icmp_bit
    /\ Len(written) = 40
    /\ written[3] \div 32 = (IF icmp_bit THEN 7 ELSE 6)

AnsweredSuccessful ==
    /\ raised = NoExc
    /\ response.cls = SuccessfulResponseMessageCls
    /\ Len(written) = 40
    /\ written[3] \div 32 = 4

\* 64:ff9b::/96, 192.168.64.2 and fd64::2
PrefixBytes == <<0, 100, 255, 155, 0, 0, 0, 0, 0, 0, 0, 0>>
TranslatorV4 == <<192, 168, 64, 2>>
TranslatorV6 == <<253, 100, 0, 0, 0, 0, 0, 0, 0, 0, 0, 0, 0, 0, 0, 2>>

InsidePrefix(p) == Len(p) = 16 /\ SubSeq(p, 1, 12) = PrefixBytes

\* The table of the policy, on packed addresses: where the transform of the
\* source (of the destination) is defined for a message type, and its value.
SourceTransformDefined(t, s) ==
    CASE t = MT_4TO6_MAIN_PACKET -> TRUE
      [] t = MT_4TO6_ICMP_ERROR_PACKET -> s = TranslatorV4
      [] t = MT_6TO4_MAIN_PACKET -> s = TranslatorV6
      [] t = MT_6TO4_ICMP_ERROR_PACKET -> InsidePrefix(s)

DestinationTransformDefined(t, d) ==
    CASE t = MT_4TO6_MAIN_PACKET -> d = TranslatorV4
      [] t = MT_4TO6_ICMP_ERROR_PACKET -> TRUE
      [] t = MT_6TO4_MAIN_PACKET -> InsidePrefix(d)
      [] t = MT_6TO4_ICMP_ERROR_PACKET -> d = TranslatorV6

SourceTransform(t, s) ==
    CASE t = MT_4TO6_MAIN_PACKET -> [cls |-> IPv6Address, packed |-> PrefixBytes \o s]
      [] t = MT_4TO6_ICMP_ERROR_PACKET -> [cls |-> IPv6Address, packed |-> TranslatorV6]
      [] t = MT_6TO4_MAIN_PACKET -> [cls |-> IPv4Address, packed |-> TranslatorV4]
      [] t = MT_6TO4_ICMP_ERROR_PACKET -> [cls |-> IPv4Address, packed |-> SubSeq(s, 13, 16)]

DestinationTransform(t, d) ==
    CASE t = MT_4TO6_MAIN_PACKET -> [cls |-> IPv6Address, packed |-> TranslatorV6]
      [] t = MT_4TO6_ICMP_ERROR_PACKET -> [cls |-> IPv6Address, packed |-> PrefixBytes \o d]
      [] t = MT_6TO4_MAIN_PACKET -> [cls |-> IPv4Address, packed |-> SubSeq(d, 13, 16)]
      [] t = MT_6TO4_ICMP_ERROR_PACKET -> [cls |-> IPv4Address, packed |-> TranslatorV4]

\* Unspecified, loopback or multicast, on packed addresses of either version.
UnspecifiedAddress(a) == \A i \in 1..Len(a) : a[i] = 0
LoopbackAddress(a) ==
    IF Len(a) = 4 THEN a[1] = 127 ELSE (a[16] = 1 /\ \A i \in 1..15 : a[i] = 0)
MulticastAddress(a) ==
    IF Len(a) = 4 THEN a[1] \in 224..239 ELSE a[1] = 255

\* What the usability check is described to refuse.
UnusableAddress(a) ==
    \/ UnspecifiedAddress(a)
    \/ LoopbackAddress(a)
    \/ MulticastAddress(a)
    \/ (Len(a) = 4 /\ (a[1] = 0 \/ a = <<255, 255, 255, 255>>))

\* The end-to-end scenarios S1..S5: a request frame and the response frame
\* expected for it, with message_identifier 0xDEADBEEF.
ScenarioHeader(type_byte, cache_lifetime) == <<84, 1, type_byte, cache_lifetime, 222, 173, 190, 239>>

Padded(ipv4) == ipv4 \o <<0, 0, 0, 0, 0, 0, 0, 0, 0, 0, 0, 0>>

Scenarios ==
    {\* S1: 4TO6 main, 8.8.8.8 -> 192.168.64.2
     <<ScenarioHeader(1, 0) \o Padded(<<8, 8, 8, 8>>) \o Padded(TranslatorV4),
       ScenarioHeader(129, 5) \o PrefixBytes \o <<8, 8, 8, 8>> \o TranslatorV6>>,
     \* S2: the same to 192.168.64.3
     <<ScenarioHeader(1, 0) \o Padded(<<8, 8, 8, 8>>) \o Padded(<<192, 168, 64, 3>>),
       ScenarioHeader(193, 0) \o Padded(<<0, 0, 0, 0>>) \o Padded(<<0, 0, 0, 0>>)>>,
     \* S3: 6TO4 main, fd64::2 -> 64:ff9b::808:808
     <<ScenarioHeader(3, 0) \o TranslatorV6 \o PrefixBytes \o <<8, 8, 8, 8>>,
       ScenarioHeader(131, 5) \o Padded(TranslatorV4) \o Padded(<<8, 8, 8, 8>>)>>,
     \* S4: the same to 2001:db8::1
     <<ScenarioHeader(3, 0) \o TranslatorV6 \o <<32, 1, 13, 184, 0, 0, 0, 0, 0, 0, 0, 0, 0, 0, 0, 1>>,
       ScenarioHeader(195, 0) \o Padded(<<0, 0, 0, 0>>) \o Padded(<<0, 0, 0, 0>>)>>,
     \* S5: 4TO6 ICMP error, 192.168.64.2 -> 1.2.3.4
     <<ScenarioHeader(2, 0) \o Padded(TranslatorV4) \o Padded(<<1, 2, 3, 4>>),
       ScenarioHeader(130, 5) \o TranslatorV6 \o PrefixBytes \o <<1, 2, 3, 4>>>>}

----------------------------------------------------------------------------
(* C12 *)

\* C12: with the default configuration, the translation follows the table of the
\* policy.  When it returns, both transforms of the message type are defined
\* and it returns their values, and the successful response carries them with
\* cache_lifetime 5; when a transform is undefined (prefix_6to4 outside
\* 64:ff9b::/96, translator_ip_* off the translator's own address) it fails with
\* icmp_bit false; when both are defined it returns, for an ICMP-error type
\* always and for a main type when both addresses are usable; and the scenarios
\* S1..S5 get the response frames given for them.
C12_PolicyTable ==
    (PolicyAsked /\ DefaultConfiguration) =>
        LET t == message.message_type
            s == message.source_ip_address.packed
            d == message.destination_ip_address.packed
            defined == SourceTransformDefined(t, s) /\ DestinationTransformDefined(t, d)
        IN  /\ TranslationSucceeded \/ TranslationFailed
            /\ TranslationSucceeded =>
                  /\ defined
                  /\ translation.value = <<SourceTransform(t, s), DestinationTransform(t, d)>>
                  /\ AnsweredSuccessful
                  /\ response.cache_lifetime = 5
                  /\ response.source_ip_address = SourceTransform(t, s)
                  /\ response.destination_ip_address = DestinationTransform(t, d)
            /\ ~defined =>
                  /\ TranslationFailed
                  /\ translation.icmp_bit = FALSE
                  /\ AnsweredErroneous(FALSE)
            /\ (defined /\ (~IsMainPacket(t) \/ (~UnusableAddress(s) /\ ~UnusableAddress(d)))) =>
                  TranslationSucceeded
            /\ \A scenario \in Scenarios :
                  wireformat_bytes = scenario[1] => written = scenario[2]

\* Scenario S5 has been answered.
C12_Witness ==
    /\ PolicyAsked
    /\ DefaultConfiguration
    /\ message.message_type = MT_4TO6_ICMP_ERROR_PACKET
    /\ message.destination_ip_address.packed = <<1, 2, 3, 4>>
    /\ TranslationSucceeded
    /\ written[4] = 5

\* A 6TO4 request towards an address outside the prefix has been refused.
C12_WitnessUndefined ==
    /\ PolicyAsked
    /\ DefaultConfiguration
    /\ message.message_type = MT_6TO4_MAIN_PACKET
    /\ message.source_ip_address.packed = TranslatorV6
    /\ ~InsidePrefix(message.destination_ip_address.packed)
    /\ AnsweredErroneous(FALSE)

----------------------------------------------------------------------------
(* C13 *)

\* C13: for a request of a main type, if the source or the destination is
\* unspecified, loopback or multicast, or is an IPv4 address whose first octet
\* is 0 or that is 255.255.255.255, the translation fails with icmp_bit false
\* and the response is erroneous.
C13_UnusableAddressesFail ==
    (/\ PolicyAsked
     /\ IsMainPacket(message.message_type)
     /\ \/ UnusableAddress(message.source_ip_address.packed)
        \/ UnusableAddress(message.destination_ip_address.packed))
    => (/\ TranslationFailed
        /\ translation.icmp_bit = FALSE
        /\ AnsweredErroneous(FALSE))

\* What the code does: the refusal holds for unspecified, loopback and multicast
\* addresses and for 255.255.255.255; an IPv4 address 0.x.y.z other than 0.0.0.0
\* passes the usability check.
C13_UsabilityCheckAsCoded ==
    /\ (/\ PolicyAsked
        /\ IsMainPacket(message.message_type)
        /\ \E a \in {message.source_ip_address.packed, message.destination_ip_address.packed} :
              \/ UnspecifiedAddress(a)
              \/ LoopbackAddress(a)
              \/ MulticastAddress(a)
              \/ a = <<255, 255, 255, 255>>)
       => (/\ TranslationFailed
           /\ translation.icmp_bit = FALSE
           /\ AnsweredErroneous(FALSE))
    /\ (/\ PolicyAsked
        /\ DefaultConfiguration
        /\ message.message_type = MT_4TO6_MAIN_PACKET
        /\ message.source_ip_address.packed = <<0, 1, 2, 3>>
        /\ message.destination_ip_address.packed = TranslatorV4)
       => (/\ TranslationSucceeded
           /\ AnsweredSuccessful
           /\ response.source_ip_address.packed = PrefixBytes \o <<0, 1, 2, 3>>)

----------------------------------------------------------------------------
(* C14 *)

PrivateAddress(a) ==
    is_private([cls |-> IF Len(a) = 4 THEN IPv4Address ELSE IPv6Address, packed |-> a])

\* Refused by the usability check as it runs.
RefusedAsUnusable(a) ==
    \/ UnspecifiedAddress(a)
    \/ LoopbackAddress(a)
    \/ MulticastAddress(a)
    \/ a = <<255, 255, 255, 255>>

\* C14 as stated: with ALLOW_TRANSLATION_OF_PRIVATE_IPS false, a request of a
\* main type whose source or destination is private fails with icmp_bit true,
\* whatever the other address is.
C14_PrivateAlwaysIcmp ==
    (/\ PolicyAsked
     /\ ~ALLOW_TRANSLATION_OF_PRIVATE_IPS
     /\ IsMainPacket(message.message_type)
     /\ \/ PrivateAddress(message.source_ip_address.packed)
        \/ PrivateAddress(message.destination_ip_address.packed))
    => (/\ TranslationFailed
        /\ translation.icmp_bit = TRUE
        /\ AnsweredErroneous(TRUE))

\* C14 (amended): with ALLOW_TRANSLATION_OF_PRIVATE_IPS false, a request of a
\* main type whose source or destination is private fails; it fails with
\* icmp_bit true when neither address is unspecified, loopback, multicast or
\* 255.255.255.255, and with icmp_bit false otherwise, the usability checks of
\* both addresses being run before the privacy checks.
C14_PrivateRefused ==
    (/\ PolicyAsked
     /\ ~ALLOW_TRANSLATION_OF_PRIVATE_IPS
     /\ IsMainPacket(message.message_type)
     /\ \/ PrivateAddress(message.source_ip_address.packed)
        \/ PrivateAddress(message.destination_ip_address.packed))
    => LET usable == /\ ~RefusedAsUnusable(message.source_ip_address.packed)
                     /\ ~RefusedAsUnusable(message.destination_ip_address.packed)
       IN  /\ TranslationFailed
           /\ translation.icmp_bit = usable
           /\ AnsweredErroneous(usable)

\* A main request from 10.0.0.1 to the translator was refused with icmp_bit true.
C14_Witness ==
    /\ PolicyAsked
    /\ ~ALLOW_TRANSLATION_OF_PRIVATE_IPS
    /\ message.message_type = MT_4TO6_MAIN_PACKET
    /\ message.source_ip_address.packed = <<10, 0, 0, 1>>
    /\ AnsweredErroneous(TRUE)

\* A main request from the private address 127.0.0.1 was refused with icmp_bit false.
C14_WitnessLoopback ==
    /\ PolicyAsked
    /\ ~ALLOW_TRANSLATION_OF_PRIVATE_IPS
    /\ message.message_type = MT_4TO6_MAIN_PACKET
    /\ message.source_ip_address.packed = <<127, 0, 0, 1>>
    /\ AnsweredErroneous(FALSE)

----------------------------------------------------------------------------
(* C15 *)

\* C15: with the default configuration, a request of any of the four message
\* types whose source is loopback, multicast or unspecified is answered with an
\* erroneous response whose icmp_bit is false.
C15_BadSourceNoIcmp ==
    (/\ PolicyAsked
     /\ DefaultConfiguration
     /\ \/ LoopbackAddress(message.source_ip_address.packed)
        \/ MulticastAddress(message.source_ip_address.packed)
        \/ UnspecifiedAddress(message.source_ip_address.packed))
    => (/\ TranslationFailed
        /\ translation.icmp_bit = FALSE
        /\ AnsweredErroneous(FALSE))

\* A main request from a multicast address to the translator was answered.
C15_Witness ==
    /\ PolicyAsked
    /\ DefaultConfiguration
    /\ message.message_type = MT_4TO6_MAIN_PACKET
    /\ message.source_ip_address.packed = <<224, 0, 0, 1>>
    /\ message.destination_ip_address.packed = TranslatorV4
    /\ AnsweredErroneous(FALSE)

\* An ICMP-error request from ::1 was answered.
C15_WitnessIcmpError ==
    /\ PolicyAsked
    /\ DefaultConfiguration
    /\ message.message_type = MT_6TO4_ICMP_ERROR_PACKET
    /\ LoopbackAddress(message.source_ip_address.packed)
    /\ AnsweredErroneous(FALSE)

----------------------------------------------------------------------------
(* C16 *)

\* C16: for a request of an ICMP-error type, with either value of
\* ALLOW_TRANSLATION_OF_PRIVATE_IPS, a translation failure carries icmp_bit
\* false, and generate_erroneous_response does not fail: the erroneous response
\* is built and written.
C16_IcmpErrorNeverIcmp ==
    (/\ PolicyAsked
     /\ ~IsMainPacket(message.message_type))
    => (/\ raised = NoExc
        /\ TranslationFailed =>
              /\ translation.icmp_bit = FALSE
              /\ AnsweredErroneous(FALSE))

\* An ICMP-error request with private addresses was refused while private
\* addresses are not translated.
C16_Witness ==
    /\ PolicyAsked
    /\ ~ALLOW_TRANSLATION_OF_PRIVATE_IPS
    /\ message.message_type = MT_4TO6_ICMP_ERROR_PACKET
    /\ message.source_ip_address.packed = <<10, 0, 0, 1>>
    /\ AnsweredErroneous(FALSE)

----------------------------------------------------------------------------
(* C17 *)

\* The request answered before the one at hand (NoMsg when it is the first).
PreviousRequest == last_call.args[1]

\* C17: for every IPv4 address a, perform_prefix_4to6_translation(a) is inside
\* 64:ff9b::/96, its first 12 bytes being the prefix and its last 4 bytes a, and
\* perform_prefix_6to4_translation of that address returns a.  The first is
\* read on the translated source of a 4TO6 main request and on the translated
\* destination of a 4TO6 ICMP-error request; the second on the request of the
\* other direction made of the translated addresses, which gets a back unless
\* one of the checks of a main request refuses it.
C17_PrefixRoundTrip ==
    /\ (PolicyAsked /\ TranslationSucceeded /\ message.message_type = MT_4TO6_MAIN_PACKET) =>
          /\ InsidePrefix(translation.value[1].packed)
          /\ SubSeq(translation.value[1].packed, 13, 16) = message.source_ip_address.packed
    /\ (PolicyAsked /\ TranslationSucceeded /\ message.message_type = MT_4TO6_ICMP_ERROR_PACKET) =>
          /\ InsidePrefix(translation.value[2].packed)
          /\ SubSeq(translation.value[2].packed, 13, 16) = message.destination_ip_address.packed
    /\ (RequestHandled /\ PreviousRequest # NoMsg /\ PreviousRequest.message_type = MT_4TO6_ICMP_ERROR_PACKET) =>
          /\ message.message_type = MT_6TO4_ICMP_ERROR_PACKET
          /\ TranslationSucceeded
          /\ translation.value[1] = PreviousRequest.destination_ip_address
          /\ response.source_ip_address = PreviousRequest.destination_ip_address
    /\ (RequestHandled /\ PreviousRequest # NoMsg /\ PreviousRequest.message_type = MT_4TO6_MAIN_PACKET) =>
          /\ message.message_type = MT_6TO4_MAIN_PACKET
          /\ DefaultConfiguration => TranslationSucceeded
          /\ TranslationSucceeded =>
                /\ translation.value[2] = PreviousRequest.source_ip_address
                /\ response.destination_ip_address = PreviousRequest.source_ip_address

\* 255.255.255.255 went through the prefix and came back.
C17_Witness ==
    /\ RequestHandled
    /\ PreviousRequest # NoMsg
    /\ PreviousRequest.message_type = MT_4TO6_ICMP_ERROR_PACKET
    /\ PreviousRequest.destination_ip_address.packed = <<255, 255, 255, 255>>
    /\ message.source_ip_address.packed = PrefixBytes \o <<255, 255, 255, 255>>
    /\ response.source_ip_address.packed = <<255, 255, 255, 255>>

\* 8.8.8.8 went through the prefix and came back, in main requests.
C17_WitnessMain ==
    /\ RequestHandled
    /\ PreviousRequest # NoMsg
    /\ PreviousRequest.message_type = MT_4TO6_MAIN_PACKET
    /\ response.cls = SuccessfulResponseMessageCls
    /\ response.destination_ip_address.packed = <<8, 8, 8, 8>>

----------------------------------------------------------------------------
(* C18 *)

\* The frame b with its message_identifier field replaced.
WithIdentifier(b, identifier) == SubSeq(b, 1, 4) \o identifier \o SubSeq(b, 9, 40)

OtherIdentifiers == {<<0, 0, 0, 0>>, <<0, 0, 0, 1>>, <<222, 173, 190, 239>>, <<255, 255, 255, 255>>}

\* C18: a response frame the request handler writes carries the
\* message_identifier and the message type of the request frame it answers; and
\* the request with any other identifier gets the same translation and the same
\* response frame but for the identifier, which is the other one.
C18_IdentifierEcho ==
    (RequestHandled /\ raised = NoExc) =>
        /\ Len(written) = 40
        /\ SubSeq(written, 5, 8) = SubSeq(wireformat_bytes, 5, 8)
        /\ TypeCodeOf(written) = TypeCodeOf(wireformat_bytes)
        /\ response.message_identifier = message.message_identifier
        /\ response.message_type = message.message_type
        /\ \A identifier \in OtherIdentifiers :
              LET other == handle_client_request(WithIdentifier(wireformat_bytes, identifier))
              IN  /\ other.exc = NoExc
                  /\ other.translation = translation
                  /\ other.written = WithIdentifier(written, identifier)

\* An erroneous response echoing 0xDEADBEEF was written.
C18_Witness ==
    /\ RequestHandled
    /\ raised = NoExc
    /\ response.cls = ErroneousResponseMessageCls
    /\ SubSeq(written, 5, 8) = <<222, 173, 190, 239>>

\* A successful response echoing identifier 1 was written.
C18_WitnessSuccessful ==
    /\ RequestHandled
    /\ raised = NoExc
    /\ response.cls = SuccessfulResponseMessageCls
    /\ SubSeq(written, 5, 8) = <<0, 0, 0, 1>>

----------------------------------------------------------------------------
(* Vocabulary of the connection properties. *)

\* The 40-byte frame b is a request: good header, no flag bit set, and zero
\* padding after the IPv4 addresses of a 4TO6 type.
DecodesAsRequest(b) ==
    /\ GoodHeader(b)
    /\ b[3] \div 32 = 0
    /\ TypeCodeOf(b) \in {1, 2} =>
          /\ SubSeq(b, 13, 24) = <<0, 0, 0, 0, 0, 0, 0, 0, 0, 0, 0, 0>>
          /\ SubSeq(b, 29, 40) = <<0, 0, 0, 0, 0, 0, 0, 0, 0, 0, 0, 0>>

\* The k-th 40 bytes of a byte string.
FrameOf(bytes, k) == SubSeq(bytes, 40 * (k - 1) + 1, 40 * k)

\* The 40-byte frame `answer' is a response to the request frame `request'.
Answers(answer, request) ==
    /\ Len(answer) = 40
    /\ answer[1] = 84
    /\ answer[2] = 1
    /\ ResponseBitOf(answer) = 1
    /\ TypeCodeOf(answer) = TypeCodeOf(request)
    /\ SubSeq(answer, 5, 8) = SubSeq(request, 5, 8)
    /\ \A scenario \in Scenarios :
          WithIdentifier(request, <<222, 173, 190, 239>>) = scenario[1]
              => WithIdentifier(answer, <<222, 173, 190, 239>>) = scenario[2]

HandlerEnded(connection) == connection.pc \in {"wait_closed", "done"}

----------------------------------------------------------------------------
(* C19 *)

\* C19: on each connection the handler reads the bytes sent 40 at a time and in
\* order, the k-th request read being the k-th 40 bytes sent; it has written at
\* most as many responses as it has read requests, each of 40 bytes, the k-th
\* answering the k-th request; a request that decodes has its response written
\* by the time anything else happens on the connection, so the handler is back
\* at readexactly() only with every request read answered; and nothing is left
\* out of or added to the reader's buffer.
C19_SerialRequestResponse ==
    \A client \in Clients :
        LET connection == connections[client]
            read == Len(connection.requests)
            answered == Len(connection.responses)
        IN  /\ \A k \in 1..read : connection.requests[k] = FrameOf(connection.sent, k)
            /\ \/ connection.received = SubSeq(connection.sent, 40 * read + 1, Len(connection.sent))
               \/ (connection.ended_by = "EOFError" /\ connection.received = <<>>)
            /\ answered <= read
            /\ \A k \in 1..answered : Answers(connection.responses[k], connection.requests[k])
            /\ \A k \in 1..read : DecodesAsRequest(connection.requests[k]) => k <= answered
            /\ connection.pc \in {"readexactly", "drain"} => answered = read
            /\ read - answered <= 1

\* Two requests of a connection have been answered, the first refused and the
\* second translated, while the other connection has been answered once.
C19_Witness ==
    \E client \in Clients, other \in Clients :
        /\ client # other
        /\ Len(connections[client].responses) = 2
        /\ ErrorBitOf(connections[client].responses[1]) = 1
        /\ ErrorBitOf(connections[client].responses[2]) = 0
        /\ connections[client].pc = "readexactly"
        /\ Len(connections[other].responses) = 1

----------------------------------------------------------------------------
(* C20 *)

\* What holds of a connection on which a frame that is not a request was read:
\* it is the last frame read, it has no response, the writer is closed and the
\* handler has left its loop on InvalidMessageDataExc.
EndedByMalformedFrame(connection, k) ==
    /\ k = Len(connection.requests)
    /\ Len(connection.responses) = k - 1
    /\ connection.closed
    /\ HandlerEnded(connection)
    /\ connection.ended_by = "InvalidMessageDataExc"

\* A connection is served, its handler in its loop and its writer open, until
\* something happens on that connection: a frame of its own that is not a
\* request, the end of its own stream, or the loss of the connection.
EndedForItsOwnReason(connection) ==
    IF connection.closed \/ HandlerEnded(connection) \/ connection.ended_by # NoExc
    THEN /\ connection.closed
         /\ HandlerEnded(connection)
         /\ \/ /\ connection.ended_by = "InvalidMessageDataExc"
               /\ connection.requests # <<>>
               /\ ~DecodesAsRequest(connection.requests[Len(connection.requests)])
            \/ /\ connection.ended_by = "EOFError"
               /\ connection.eof
               /\ Len(connection.sent) - 40 * Len(connection.requests) \in 0..39
            \/ connection.ended_by = "OSError"
            \/ connection.ended_by = "CancelledError"
    ELSE connection.pc \in {"readexactly", "drain"}

\* The second conjunct is about the handler alone, on each kind of malformed
\* frame: it is evaluated while nothing has been sent yet.
C20_MalformedFrameEndsConnection ==
    /\ \A client \in Clients :
          \A k \in 1..Len(connections[client].requests) :
              ~DecodesAsRequest(connections[client].requests[k])
                  => EndedByMalformedFrame(connections[client], k)
    /\ (\A client \in Clients : connections[client].sent = <<>>) =>
          \A frame \in MalformedFrames :
              LET handled == handle_client_request(frame)
              IN  /\ ~DecodesAsRequest(frame)
                  /\ handled.exc \in {"InvalidMessageDataExc", "InvalidWireformatMessageDataExc"}
                  /\ handled.written = <<>>
    /\ \A client \in Clients : EndedForItsOwnReason(connections[client])

\* A step changes one connection and leaves the others as they are.
OneConnectionPerStep ==
    \A client \in Clients :
        connections'[client] # connections[client]
            => \A other \in Clients \ {client} : connections'[other] = connections[other]

\* C20: a frame that does not decode as a request (bad magic, bad version,
\* unknown type, bad padding, a flag bit set, a response) gets no response, is
\* the last frame read from its connection, and its connection is closed; the
\* step that ends the connection, like every other step, leaves the other
\* connections as they are, and a connection stays in service until a frame of
\* its own, the end of its own stream or its own loss ends it.
C20_MalformedFrameOwnConnectionOnly ==
    []C20_MalformedFrameEndsConnection /\ [][OneConnectionPerStep]_vars

\* A connection has been ended by a malformed frame with another frame left
\* unread behind it, and the other connection has been answered and can go on.
C20_Witness ==
    \E client \in Clients, other \in Clients :
        /\ client # other
        /\ connections[client].ended_by = "InvalidMessageDataExc"
        /\ connections[client].requests[1][1] = 0
        /\ Len(connections[client].received) = 40
        /\ connections[client].responses = <<>>
        /\ connections[client].closed
        /\ Len(connections[other].responses) = 1
        /\ connections[other].pc = "readexactly"
        /\ ~connections[other].closed

----------------------------------------------------------------------------
(* C21 *)

\* The exit paths of handle_client: what ended its loop.
ExitPaths == {"EOFError", "OSError", "InvalidMessageDataExc", "CancelledError"}

\* handle_client has finished: it returned or raised to its caller.
HandlerFinished(connection) == connection.pc = "done"

\* C21: on every connection, as soon as the loop of handle_client has ended, by
\* EOF from the peer (after zero bytes or within a frame), by an I/O error, by
\* an invalid frame or by the cancellation of the task, stream_writer.close()
\* has been called, so it has been called when the handler finishes; the
\* handler finishes only that way; and what it raises to its caller is never
\* OSError, EOFError or InvalidMessageDataExc.
C21_WriterClosedOnEveryExit ==
    \A client \in Clients :
        LET connection == connections[client]
        IN  /\ connection.ended_by # NoExc => connection.closed
            /\ HandlerFinished(connection) =>
                  /\ connection.closed
                  /\ connection.ended_by \in ExitPaths
            /\ connection.propagated \notin {"OSError", "EOFError", "InvalidMessageDataExc"}
            /\ connection.propagated # NoExc => HandlerFinished(connection)

\* One handler finished after its task was cancelled in its loop, raising
\* CancelledError with its writer closed; the other finished by an EOF within a
\* frame and returned.
C21_Witness ==
    \E client \in Clients, other \in Clients :
        /\ client # other
        /\ HandlerFinished(connections[client])
        /\ connections[client].ended_by = "CancelledError"
        /\ connections[client].propagated = "CancelledError"
        /\ connections[client].closed
        /\ Len(connections[client].responses) = 1
        /\ HandlerFinished(connections[other])
        /\ connections[other].ended_by = "EOFError"
        /\ Len(connections[other].sent) = TruncatedLength
        /\ connections[other].propagated = NoExc
        /\ connections[other].closed

\* One handler finished by an EOF after zero bytes, the other by an invalid
\* frame; both returned with their writers closed.
C21_WitnessEofAndInvalidFrame ==
    \E client \in Clients, other \in Clients :
        /\ HandlerFinished(connections[client])
        /\ connections[client].ended_by = "EOFError"
        /\ connections[client].sent = <<>>
        /\ connections[client].closed
        /\ HandlerFinished(connections[other])
        /\ connections[other].ended_by = "InvalidMessageDataExc"
        /\ connections[other].propagated = NoExc
        /\ connections[other].closed

\* One handler finished by an I/O error at drain(); the other was cancelled
\* while it awaited wait_closed() after an EOF.
C21_WitnessIoErrorAndLateCancellation ==
    \E client \in Clients, other \in Clients :
        /\ HandlerFinished(connections[client])
        /\ connections[client].ended_by = "OSError"
        /\ Len(connections[client].responses) = Len(connections[client].requests)
        /\ connections[client].responses # <<>>
        /\ connections[client].propagated = NoExc
        /\ connections[client].closed
        /\ HandlerFinished(connections[other])
        /\ connections[other].ended_by = "EOFError"
        /\ connections[other].propagated = "CancelledError"
        /\ connections[other].closed

----------------------------------------------------------------------------
(* Vocabulary of the properties of the drivers. *)

ListenerClosed == server = "closed"

SigtermSent == tundra_process.signals # <<>>

\* cancel() has been called on the task of a thread data object.
TaskCancelled(thread_data) == thread_data.cancel_called

SomeTaskCancelled ==
    \E i \in DOMAIN translator_thread_data_objects : TaskCancelled(translator_thread_data_objects[i])

\* A shutdown action has happened.
ShutdownAction == ListenerClosed \/ SigtermSent \/ SomeTaskCancelled

WaitingForSignal == main_pc = "signal_caught_event.wait"

MainExited == main_pc = "exited"

----------------------------------------------------------------------------
(* C22 *)

\* No shutdown action without a caught signal, and none twice: the listener is
\* closed, SIGTERM sent and a task cancelled only with the event set, the event
\* is set exactly when a signal has been caught, and SIGTERM is sent once.
ShutdownOnlyAfterSignal ==
    /\ ShutdownAction => signal_caught_event
    /\ signal_caught_event <=> signals_caught > 0
    /\ Len(tundra_process.signals) <= 1

\* A step that catches a signal leaves the event set and does nothing else; no
\* step clears the event, and no step undoes a shutdown action.
SignalSetsEventOnly ==
    /\ signals_caught' # signals_caught =>
          /\ signal_caught_event'
          /\ UNCHANGED <<main_pc, main_raised, server, commands, translator_thread_data_objects, tundra_process>>
    /\ signal_caught_event => signal_caught_event'
    /\ ListenerClosed => ListenerClosed'
    /\ SigtermSent => UNCHANGED tundra_process.signals

\* C22 as stated: in every transport driver no shutdown action happens before a
\* termination signal has been caught, the first caught signal sets the
\* event, further signals leave it set and cause no shutdown action, and once
\* the event is set the driver proceeds to a shutdown action.
C22_SetEventLeadsToShutdown ==
    /\ []ShutdownOnlyAfterSignal
    /\ [][SignalSetsEventOnly]_vars
    /\ signal_caught_event ~> ShutdownAction

\* The driver has left its wait for the event: it has closed the listener, or
\* called send_signal(SIGTERM), which sent the signal or raised
\* ProcessLookupError.
ShutdownStarted == ListenerClosed \/ SigtermSent \/ main_raised = ProcessLookupError

\* C22: in every transport driver no shutdown action happens before a
\* termination signal has been caught, the first caught signal sets the
\* event, further signals leave it set and cause no shutdown action, and a
\* driver that awaits the event with the event set leaves the wait and starts
\* its shutdown sequence.
C22_ShutdownOnlyBySignalOnce ==
    /\ []ShutdownOnlyAfterSignal
    /\ [][SignalSetsEventOnly]_vars
    /\ (signal_caught_event /\ WaitingForSignal) ~> ShutdownStarted

\* In fd-inherit mode two signals were caught, SIGTERM was sent once and the
\* tasks have been cancelled.
C22_Witness ==
    /\ TRANSPORT = "inherited-fds"
    /\ signals_caught = 2
    /\ signal_caught_event
    /\ tundra_process.signals = <<"SIGTERM">>
    /\ \A i \in DOMAIN translator_thread_data_objects : TaskCancelled(translator_thread_data_objects[i])
    /\ translator_thread_data_objects # <<>>

\* The TCP driver closed its listener after one signal.
C22_WitnessListener ==
    /\ TRANSPORT = "tcp"
    /\ signals_caught = 1
    /\ ListenerClosed

\* A signal was caught while a command before Tundra ran, the command failed and
\* main() was left by CommandFailedExc with no shutdown action.
C22_WitnessSignalDuringStartup ==
    /\ signal_caught_event
    /\ MainExited
    /\ main_raised = CommandFailedExc
    /\ ~ShutdownAction

----------------------------------------------------------------------------
(* C23 *)

\* The awaits of inherited_fds_main that come after `await tundra_process.wait()`.
AfterTundraWait ==
    \/ main_pc \in {"thread_data.task", "stream_writer.wait_closed"}
    \/ CurrentSequence = "after" /\ main_pc \in {"create_subprocess_shell", "process.stdin.drain", "process.wait", "exited"}

\* The driver has touched the channel of a thread data object: cancelled its
\* task or closed one of its socket ends (a writer closed with the task "done"
\* was closed by handle_client ending by itself).
ChannelShutDown(thread_data) ==
    \/ TaskCancelled(thread_data)
    \/ thread_data.task \in {"cancelling", "cancelled"}
    \/ thread_data.tundra_socket = "closed"
    \/ thread_data.stream_writer = "closed" /\ thread_data.task # "done"

\* The channel of a thread data object is wholly shut down.
ChannelReleased(thread_data) ==
    /\ TaskCancelled(thread_data)
    /\ thread_data.task \in {"cancelled", "done"}
    /\ thread_data.tundra_socket = "closed"
    /\ thread_data.stream_writer = "closed"

PostCommandsStarted == ProcessesOf("after") # <<>>

\* C23: in fd-inherit mode SIGTERM is sent to the translator child only with
\* the shutdown event set; no handler task is cancelled and no socketpair end
\* is closed by the driver before SIGTERM has been sent and the wait for the
\* child's exit has returned with the child exited; and the commands after
\* Tundra start only with every handler task cancelled and ended and both ends
\* of every socketpair closed.
C23_FdInheritShutdownOrder ==
    /\ SigtermSent => signal_caught_event
    /\ \A i \in DOMAIN translator_thread_data_objects :
          ChannelShutDown(translator_thread_data_objects[i]) =>
             /\ SigtermSent
             /\ tundra_process.state = "exited"
             /\ AfterTundraWait
    /\ PostCommandsStarted =>
          /\ Len(translator_thread_data_objects) = INHERITED_FDS_TRANSLATOR_THREADS
          /\ \A i \in DOMAIN translator_thread_data_objects :
                ChannelReleased(translator_thread_data_objects[i])

\* The first command after Tundra runs: SIGTERM was sent, the child has exited,
\* and every channel is shut down, one of a task that had ended by itself and
\* one of a task that was cancelled while it ran.
C23_Witness ==
    /\ Len(ProcessesOf("after")) = 1
    /\ tundra_process.signals = <<"SIGTERM">>
    /\ tundra_process.state = "exited"
    /\ \E i, j \in DOMAIN translator_thread_data_objects :
          /\ translator_thread_data_objects[i].task = "done"
          /\ translator_thread_data_objects[j].task = "cancelled"
    /\ \A i \in DOMAIN translator_thread_data_objects :
          ChannelReleased(translator_thread_data_objects[i])

\* The driver is in its loop over the thread data objects: the first channel
\* is shut down, the last one untouched.
C23_WitnessInLoop ==
    /\ main_pc = "thread_data.task"
    /\ Len(translator_thread_data_objects) = INHERITED_FDS_TRANSLATOR_THREADS
    /\ ChannelReleased(translator_thread_data_objects[1])
    /\ ~ChannelShutDown(translator_thread_data_objects[INHERITED_FDS_TRANSLATOR_THREADS])

----------------------------------------------------------------------------
(* C24 *)

\* The process has exited with code 0.
ExitedWithZero(process) == process.exited /\ process.exit_code = 0

\* The process has exited with a code other than 0.
ExitedWithNonZero(process) == process.exited /\ process.exit_code # 0

SocketpairCreated == translator_thread_data_objects # <<>>

ChildSpawned == tundra_process.state # "none"

\* C24: the processes of the commands before Tundra are the first ones created
\* and run the commands of the tuple in its order, one at a time: each one but
\* the last created has exited with code 0; a socketpair or the translator
\* child exists only when all of them have exited with code 0; and when one
\* has exited with another code it is the last process ever created, there is
\* no socketpair and no child, and the driver is still at the awaits of that
\* command or main() has been left by an exception.
C24_PreCommandsGateStartup ==
    LET before == ProcessesOf("before")
    IN  /\ Len(before) <= Len(INHERITED_FDS_RUN_COMMANDS_BEFORE_STARTING_TUNDRA)
        /\ \A k \in DOMAIN before :
              /\ commands[k] = before[k]
              /\ before[k].command = INHERITED_FDS_RUN_COMMANDS_BEFORE_STARTING_TUNDRA[k]
              /\ k < Len(before) => ExitedWithZero(before[k])
        /\ SocketpairCreated \/ ChildSpawned =>
              /\ Len(before) = Len(INHERITED_FDS_RUN_COMMANDS_BEFORE_STARTING_TUNDRA)
              /\ \A k \in DOMAIN before : ExitedWithZero(before[k])
        /\ \A k \in DOMAIN before :
              ExitedWithNonZero(before[k]) =>
                 /\ k = Len(commands)
                 /\ ~SocketpairCreated
                 /\ ~ChildSpawned
                 /\ \/ main_pc \in {"process.stdin.drain", "process.wait"}
                    \/ MainExited /\ main_raised \in {CommandFailedExc, ConnectionResetError}
        /\ main_raised = CommandFailedExc =>
              /\ MainExited
              /\ ExitedWithNonZero(commands[Len(commands)])

\* The third command before Tundra exited with a non-zero code: main() was left
\* by CommandFailedExc with three processes created, no socketpair and no child.
C24_Witness ==
    /\ Len(commands) = 3
    /\ ExitedWithZero(commands[1])
    /\ ExitedWithZero(commands[2])
    /\ ExitedWithNonZero(commands[3])
    /\ commands[3].command = "ip addr add 192.168.64.254/24 dev tundra"
    /\ MainExited
    /\ main_raised = CommandFailedExc
    /\ ~SocketpairCreated
    /\ ~ChildSpawned

\* All the commands before Tundra exited with code 0 and the child was spawned.
C24_WitnessStarted ==
    /\ Len(commands) = Len(INHERITED_FDS_RUN_COMMANDS_BEFORE_STARTING_TUNDRA)
    /\ \A k \in DOMAIN commands : ExitedWithZero(commands[k])
    /\ Len(translator_thread_data_objects) = INHERITED_FDS_TRANSLATOR_THREADS
    /\ tundra_process.state = "running"

----------------------------------------------------------------------------
(* C25 *)

\* The configuration has been written to the stdin of the translator child.
ConfigurationDelivered ==
    tundra_process.stdin = encode(INHERITED_FDS_TUNDRA_CONFIGURATION, "utf-8")

\* The fd-inherit driver has reached its wait for the shutdown event.
FdInheritReachedWait ==
    /\ TRANSPORT = "inherited-fds"
    /\ \/ WaitingForSignal
       \/ SigtermSent
       \/ main_raised = ProcessLookupError

\* C25: in fd-inherit mode, when the driver starts waiting for the shutdown
\* event, and from then on, the configuration has been written to the stdin
\* of the translator child and that stdin has been closed.
C25_ChildStdinClosedBeforeWaiting ==
    FdInheritReachedWait => ConfigurationDelivered /\ tundra_process.stdin_closed

\* What the driver does: when it starts waiting for the shutdown event, and
\* from then on, the configuration has been written to the child's stdin, which
\* is still open.
C25_ChildStdinLeftOpen ==
    /\ ChildSpawned => ConfigurationDelivered /\ ~tundra_process.stdin_closed
    /\ FdInheritReachedWait => ChildSpawned

\* The driver waits for the event with the child running and its stdin open.
C25_Witness ==
    /\ TRANSPORT = "inherited-fds"
    /\ WaitingForSignal
    /\ tundra_process.state = "running"
    /\ ConfigurationDelivered
    /\ ~tundra_process.stdin_closed

----------------------------------------------------------------------------
(* C26 *)

\* main() has returned: the shutdown completed normally.
MainReturned == MainExited /\ main_raised = NoExc

\* C26: when a command after Tundra has exited with a non-zero code, the
\* remaining commands of the tuple are still run, and main(), once it is over,
\* has run them all and has returned.
C26_PostCommandFailureDoesNotStop ==
    LET after == ProcessesOf("after")
    IN  \A k \in DOMAIN after :
           ExitedWithNonZero(after[k]) =>
              /\ MainExited =>
                    /\ MainReturned
                    /\ Len(after) = Len(INHERITED_FDS_RUN_COMMANDS_AFTER_STOPPING_TUNDRA)
              /\ main_pc # "process.stdin.drain" /\ main_pc # "process.wait" =>
                    k < Len(after) \/ k = Len(INHERITED_FDS_RUN_COMMANDS_AFTER_STOPPING_TUNDRA)

\* What the driver does: a command after Tundra that has exited with a non-zero
\* code is the last process created, and main() is then left by an exception;
\* main() returns only with every command of the tuple exited with code 0.
C26_PostCommandFailureAborts ==
    LET after == ProcessesOf("after")
    IN  /\ \A k \in DOMAIN after :
              ExitedWithNonZero(after[k]) =>
                 /\ k = Len(after)
                 /\ \/ main_pc \in {"process.stdin.drain", "process.wait"}
                    \/ MainExited /\ main_raised \in {CommandFailedExc, ConnectionResetError}
        /\ MainReturned /\ TRANSPORT = "inherited-fds" =>
              /\ Len(after) = Len(INHERITED_FDS_RUN_COMMANDS_AFTER_STOPPING_TUNDRA)
              /\ \A k \in DOMAIN after : ExitedWithZero(after[k])

\* The second command after Tundra exited with a non-zero code: main() was left
\* by CommandFailedExc and the last two commands were never run.
C26_Witness ==
    /\ Len(ProcessesOf("after")) = 2
    /\ ExitedWithNonZero(ProcessesOf("after")[2])
    /\ MainExited
    /\ main_raised = CommandFailedExc

----------------------------------------------------------------------------
(* C27 *)

\* Nothing the driver acquired is left: no listening socket, no running
\* translator child, and of every socketpair both ends closed and the task
\* ended.
EverythingReleased ==
    /\ server # "listening"
    /\ tundra_process.state # "running"
    /\ \A i \in DOMAIN translator_thread_data_objects :
          /\ translator_thread_data_objects[i].task \in {"cancelled", "done"}
          /\ translator_thread_data_objects[i].tundra_socket = "closed"
          /\ translator_thread_data_objects[i].stream_writer = "closed"

\* C27: in every driver, when main() is over, by returning or by an exception,
\* every resource that was acquired has been released.
C27_ReleasedOnEveryExit == MainExited => EverythingReleased

\* What the drivers do: everything is released when main() returns, and when
\* it is left by an exception raised before the first socketpair or after the
\* last channel was shut down.
C27_ReleasedOnReturn ==
    MainExited /\ (MainReturned \/ PostCommandsStarted \/ ~SocketpairCreated) => EverythingReleased

\* create_subprocess_exec() raised: main() is over with the ends of the 8
\* socketpairs open and a task running.
C27_Witness ==
    /\ MainExited
    /\ main_raised = FileNotFoundError
    /\ Len(translator_thread_data_objects) = INHERITED_FDS_TRANSLATOR_THREADS
    /\ \A i \in DOMAIN translator_thread_data_objects :
          translator_thread_data_objects[i].tundra_socket = "open"
    /\ \E i \in DOMAIN translator_thread_data_objects :
          translator_thread_data_objects[i].task = "running"

\* The child had exited when SIGTERM was sent: main() is over, left by
\* ProcessLookupError, with the socket ends open.
C27_WitnessChildExited ==
    /\ MainExited
    /\ main_raised = ProcessLookupError
    /\ tundra_process.state = "exited"
    /\ \A i \in DOMAIN translator_thread_data_objects :
          translator_thread_data_objects[i].tundra_socket = "open"

\* A command after Tundra failed: main() is over, left by CommandFailedExc, and
\* everything had been released.
C27_WitnessPostCommandFailed ==
    /\ MainExited
    /\ main_raised = CommandFailedExc
    /\ PostCommandsStarted
    /\ EverythingReleased

====
